---- MODULE Spec2Model ----
(***************************************************************************)
(* The Matroska live-streaming filter (matroska_live_filter.py): the EBML  *)
(* codec, the element writers, the tag registry and the recursive parser   *)
(* Ebml.parse with its live rewrite, as a state machine over the bytes of  *)
(* the input and of the output.                                            *)
(*                                                                         *)
(* Representation.  A Python str is a sequence of integers: an item in     *)
(* 0..255 is one byte, an item -n (n > 0) stands for n NUL bytes, the      *)
(* string "\0" * n, so that the padding block keeps its real length.       *)
(* A Python integer that may exceed 31 bits (a size, an offset, an         *)
(* integer value) is a "wide" number: the sequence of its base-256 digits, *)
(* most significant first, without leading zeros (0 is the empty           *)
(* sequence).  struct.pack/unpack are modelled for a little-endian host.   *)
(***************************************************************************)
EXTENDS Integers, Sequences, FiniteSets, TLC

\* ------------------------------------------------------------------------
\* Python str and long
\* ------------------------------------------------------------------------

\* the bytes of the runs at the positions ps of a str, beyond one per item
RECURSIVE RunBytes(_, _)
RunBytes(s, ps) ==
    IF ps = {} THEN 0
    ELSE LET p == CHOOSE x \in ps : TRUE
         IN  (-s[p] - 1) + RunBytes(s, ps \ {p})

\* the number of bytes of the items a..b of a str
Bytes(s, a, b) ==
    IF b < a THEN 0
    ELSE (b - a + 1) + RunBytes(s, {i \in a..b : s[i] < 0})

\* len(s): the number of bytes of a str
StrLen(s) == Bytes(s, 1, Len(s))

\* "\0" * n
Zeros(n) == IF n = 0 THEN <<>> ELSE <<-n>>

\* a str whose bytes are all NUL
AllZero(s) == \A i \in 1..Len(s) : s[i] <= 0

\* the canonical form of a digit sequence (no leading zero digit)
RECURSIVE WNorm(_)
WNorm(d) == IF d # <<>> /\ d[1] = 0 THEN WNorm(Tail(d)) ELSE d

\* the wide number of a small non-negative integer
RECURSIVE W(_)
W(n) == IF n = 0 THEN <<>> ELSE Append(W(n \div 256), n % 256)

\* a wide number below 2^31 as an integer
WFits(w) == Len(w) < 4 \/ (Len(w) = 4 /\ w[1] < 128)

RECURSIVE WInt(_)
WInt(w) == IF w = <<>> THEN 0 ELSE (WInt(SubSeq(w, 1, Len(w) - 1)) * 256) + w[Len(w)]

\* the n-digit big-endian form of a wide number (its low n digits)
WPad(w, n) ==
    [i \in 1..n |-> IF i + Len(w) - n >= 1 THEN w[i + Len(w) - n] ELSE 0]

WLess(a, b) ==
    \/ Len(a) < Len(b)
    \/ /\ Len(a) = Len(b)
       /\ \E i \in 1..Len(a) :
             /\ a[i] < b[i]
             /\ \A j \in 1..(i - 1) : a[j] = b[j]

WLeq(a, b) == a = b \/ WLess(a, b)

\* a + b
WAdd(a, b) ==
    LET n == (IF Len(a) > Len(b) THEN Len(a) ELSE Len(b)) + 1
        x == WPad(a, n)
        y == WPad(b, n)
        \* carry into digit i (from the digits to its right)
        C[i \in 1..(n + 1)] ==
            IF i = n + 1 THEN 0 ELSE (x[i] + y[i] + C[i + 1]) \div 256
    IN  WNorm([i \in 1..n |-> (x[i] + y[i] + C[i + 1]) % 256])

\* a - b, for b <= a
WSub(a, b) ==
    LET n == Len(a)
        y == WPad(b, n)
        \* borrow out of digit i
        B[i \in 1..(n + 1)] ==
            IF i = n + 1 THEN 0 ELSE IF a[i] - y[i] - B[i + 1] < 0 THEN 1 ELSE 0
    IN  WNorm([i \in 1..n |-> (a[i] - y[i] - B[i + 1] + 256) % 256])

\* 2^(8k)
Pow256(k) == <<1>> \o [i \in 1..k |-> 0]

\* a / 2^32 and a % 2^32 (Python 2 integer division)
WDiv32(w) == IF Len(w) <= 4 THEN <<>> ELSE SubSeq(w, 1, Len(w) - 4)
WMod32(w) == WNorm(WPad(w, 4))

\* a | b on bytes
RECURSIVE BitOr(_, _)
BitOr(a, b) ==
    IF a = 0 THEN b
    ELSE IF b = 0 THEN a
    ELSE (2 * BitOr(a \div 2, b \div 2)) + (IF a % 2 = 1 \/ b % 2 = 1 THEN 1 ELSE 0)

\* b & mask # 0, for a one-bit mask
BitSet(b, mask) == (b \div mask) % 2 = 1

\* a | b on wide numbers
WOr(a, b) ==
    LET n == IF Len(a) > Len(b) THEN Len(a) ELSE Len(b)
    IN  WNorm([i \in 1..n |-> BitOr(WPad(a, n)[i], WPad(b, n)[i])])

\* ------------------------------------------------------------------------
\* Constants of the module
\* ------------------------------------------------------------------------

SINT == 0
UINT == 1
FLOAT == 2
STRING_ == 3
UTF8 == 4
DATE == 5
MASTER == 6
BINARY == 7

MAX_NUM_REPEATED_ELEMS == 3

NUM_CLUSTERS_BEFORE_PADDING == 1

PADDING_SIZE == 128 * 1024

\* the IDs the code names
ID_Segment == 408125543      \* 0x18538067
ID_Info == 357149030         \* 0x1549a966
ID_Duration == 17545         \* 0x4489
ID_Void == 236               \* 0xec

\* 2**56 - 2, the size every Segment is written with
SEGMENT_SIZE == WSub(Pow256(7), W(2))

\* 100 * 60 * 60 * 1000.0 as an IEEE double, the Duration every Info is written with
FAKE_DURATION == <<"float", <<65, 181, 117, 42, 0, 0, 0, 0>>>>

\* the value readFloat returns for a 10-byte float
EXTENDED == <<"str", "EXTENDED">>

MatroskaTags ==
   71 :> <<"ContentSigHashAlgo", UINT>> @@
   128 :> <<"ChapterDisplay", MASTER>> @@
   131 :> <<"TrackType", UINT>> @@
   133 :> <<"ChapString", UTF8>> @@
   134 :> <<"CodecID", STRING_>> @@
   136 :> <<"FlagDefault", UINT>> @@
   137 :> <<"ChapterTrackNumber", UINT>> @@
   142 :> <<"Slices", MASTER>> @@
   143 :> <<"ChapterTrack", MASTER>> @@
   145 :> <<"ChapterTimeStart", UINT>> @@
   146 :> <<"ChapterTimeEnd", UINT>> @@
   150 :> <<"CueRefTime", UINT>> @@
   151 :> <<"CueRefCluster", UINT>> @@
   152 :> <<"ChapterFlagHidden", UINT>> @@
   154 :> <<"FlagInterlaced", UINT>> @@
   155 :> <<"BlockDuration", UINT>> @@
   156 :> <<"FlagLacing", UINT>> @@
   159 :> <<"Channels", UINT>> @@
   160 :> <<"BlockGroup", MASTER>> @@
   161 :> <<"Block", BINARY>> @@
   162 :> <<"BlockVirtual", BINARY>> @@
   163 :> <<"SimpleBlock", BINARY>> @@
   164 :> <<"CodecState", BINARY>> @@
   165 :> <<"BlockAdditional", BINARY>> @@
   166 :> <<"BlockMore", MASTER>> @@
   167 :> <<"Position", UINT>> @@
   170 :> <<"CodecDecodeAll", UINT>> @@
   171 :> <<"PrevSize", UINT>> @@
   174 :> <<"TrackEntry", MASTER>> @@
   175 :> <<"EncryptedBlock", BINARY>> @@
   176 :> <<"PixelWidth", UINT>> @@
   179 :> <<"CueTime", UINT>> @@
   181 :> <<"SamplingFrequency", FLOAT>> @@
   182 :> <<"ChapterAtom", MASTER>> @@
   183 :> <<"CueTrackPositions", MASTER>> @@
   185 :> <<"FlagEnabled", UINT>> @@
   186 :> <<"PixelHeight", UINT>> @@
   187 :> <<"CuePoint", MASTER>> @@
   191 :> <<"CRC-32", BINARY>> @@
   203 :> <<"BlockAdditionID", UINT>> @@
   204 :> <<"LaceNumber", UINT>> @@
   205 :> <<"FrameNumber", UINT>> @@
   206 :> <<"Delay", UINT>> @@
   207 :> <<"Duration", UINT>> @@
   215 :> <<"TrackNumber", UINT>> @@
   219 :> <<"CueReference", MASTER>> @@
   224 :> <<"Video", MASTER>> @@
   225 :> <<"Audio", MASTER>> @@
   226 :> <<"TrackOperation", MASTER>> @@
   227 :> <<"TrackCombinePlanes", MASTER>> @@
   228 :> <<"TrackPlane", MASTER>> @@
   229 :> <<"TrackPlaneUID", UINT>> @@
   230 :> <<"TrackPlaneType", UINT>> @@
   231 :> <<"Timecode", UINT>> @@
   232 :> <<"TimeSlice", MASTER>> @@
   233 :> <<"TrackJoinBlocks", MASTER>> @@
   234 :> <<"CueCodecState", UINT>> @@
   235 :> <<"CueRefCodecState", UINT>> @@
   236 :> <<"Void", BINARY>> @@
   237 :> <<"TrackJoinUID", UINT>> @@
   238 :> <<"BlockAddID", UINT>> @@
   241 :> <<"CueClusterPosition", UINT>> @@
   247 :> <<"CueTrack", UINT>> @@
   250 :> <<"ReferencePriority", UINT>> @@
   251 :> <<"ReferenceBlock", SINT>> @@
   253 :> <<"ReferenceVirtual", SINT>> @@
   16980 :> <<"ContentCompAlgo", UINT>> @@
   16981 :> <<"ContentCompSettings", BINARY>> @@
   17026 :> <<"DocType", STRING_>> @@
   17029 :> <<"DocTypeReadVersion", UINT>> @@
   17030 :> <<"EBMLVersion", UINT>> @@
   17031 :> <<"DocTypeVersion", UINT>> @@
   17138 :> <<"EBMLMaxIDLength", UINT>> @@
   17139 :> <<"EBMLMaxSizeLength", UINT>> @@
   17143 :> <<"EBMLReadVersion", UINT>> @@
   17276 :> <<"ChapLanguage", STRING_>> @@
   17278 :> <<"ChapCountry", STRING_>> @@
   17476 :> <<"SegmentFamily", BINARY>> @@
   17505 :> <<"DateUTC", DATE>> @@
   17530 :> <<"TagLanguage", STRING_>> @@
   17540 :> <<"TagDefault", UINT>> @@
   17541 :> <<"TagBinary", BINARY>> @@
   17543 :> <<"TagString", UTF8>> @@
   17545 :> <<"Duration", FLOAT>> @@
   17677 :> <<"ChapProcessPrivate", BINARY>> @@
   17816 :> <<"ChapterFlagEnabled", UINT>> @@
   17827 :> <<"TagName", UTF8>> @@
   17849 :> <<"EditionEntry", MASTER>> @@
   17852 :> <<"EditionUID", UINT>> @@
   17853 :> <<"EditionFlagHidden", UINT>> @@
   17883 :> <<"EditionFlagDefault", UINT>> @@
   17885 :> <<"EditionFlagOrdered", UINT>> @@
   18012 :> <<"FileData", BINARY>> @@
   18016 :> <<"FileMimeType", STRING_>> @@
   18030 :> <<"FileName", UTF8>> @@
   18037 :> <<"FileReferral", BINARY>> @@
   18046 :> <<"FileDescription", UTF8>> @@
   18094 :> <<"FileUID", UINT>> @@
   19840 :> <<"MuxingApp", UTF8>> @@
   19899 :> <<"Seek", MASTER>> @@
   20529 :> <<"ContentEncodingOrder", UINT>> @@
   20530 :> <<"ContentEncodingScope", UINT>> @@
   20531 :> <<"ContentEncodingType", UINT>> @@
   20532 :> <<"ContentCompression", MASTER>> @@
   20533 :> <<"ContentEncryption", MASTER>> @@
   21343 :> <<"CueRefNumber", UINT>> @@
   21358 :> <<"Name", UTF8>> @@
   21368 :> <<"CueBlockNumber", UINT>> @@
   21375 :> <<"TrackOffset", SINT>> @@
   21419 :> <<"SeekID", BINARY>> @@
   21420 :> <<"SeekPosition", UINT>> @@
   21432 :> <<"StereoMode", UINT>> @@
   21674 :> <<"PixelCropBottom", UINT>> @@
   21680 :> <<"DisplayWidth", UINT>> @@
   21682 :> <<"DisplayUnit", UINT>> @@
   21683 :> <<"AspectRatioType", UINT>> @@
   21690 :> <<"DisplayHeight", UINT>> @@
   21691 :> <<"PixelCropTop", UINT>> @@
   21708 :> <<"PixelCropLeft", UINT>> @@
   21725 :> <<"PixelCropRight", UINT>> @@
   21930 :> <<"FlagForced", UINT>> @@
   21998 :> <<"MaxBlockAdditionID", UINT>> @@
   22337 :> <<"WritingApp", UTF8>> @@
   22612 :> <<"SilentTracks", MASTER>> @@
   22743 :> <<"SilentTrackNumber", UINT>> @@
   24999 :> <<"AttachedFile", MASTER>> @@
   25152 :> <<"ContentEncoding", MASTER>> @@
   25188 :> <<"BitDepth", UINT>> @@
   25506 :> <<"CodecPrivate", BINARY>> @@
   25536 :> <<"Targets", MASTER>> @@
   25539 :> <<"ChapterPhysicalEquiv", UINT>> @@
   25540 :> <<"ChapterUID", UINT>> @@
   25541 :> <<"TrackUID", UINT>> @@
   25542 :> <<"AttachmentUID", UINT>> @@
   25545 :> <<"EditionUID", UINT>> @@
   25546 :> <<"TargetType", STRING_>> @@
   25906 :> <<"SignedElement", BINARY>> @@
   26148 :> <<"TrackTranslate", MASTER>> @@
   26277 :> <<"TrackTranslateTrackID", BINARY>> @@
   26303 :> <<"TrackTranslateCodec", UINT>> @@
   26364 :> <<"TrackTranslateEditionUID", UINT>> @@
   26568 :> <<"SimpleTag", MASTER>> @@
   26826 :> <<"TargetTypeValue", UINT>> @@
   26897 :> <<"ChapProcessCommand", MASTER>> @@
   26914 :> <<"ChapProcessTime", UINT>> @@
   26916 :> <<"ChapterTranslate", MASTER>> @@
   26931 :> <<"ChapProcessData", BINARY>> @@
   26948 :> <<"ChapProcess", MASTER>> @@
   26965 :> <<"ChapProcessCodecID", UINT>> @@
   27045 :> <<"ChapterTranslateID", BINARY>> @@
   27071 :> <<"ChapterTranslateCodec", UINT>> @@
   27132 :> <<"ChapterTranslateEditionUID", UINT>> @@
   28135 :> <<"MinCache", UINT>> @@
   28152 :> <<"MaxCache", UINT>> @@
   28263 :> <<"ChapterSegmentUID", BINARY>> @@
   28348 :> <<"ChapterSegmentEditionUID", BINARY>> @@
   28587 :> <<"TrackOverlay", UINT>> @@
   29555 :> <<"Tag", MASTER>> @@
   29572 :> <<"SegmentFilename", UTF8>> @@
   29604 :> <<"SegmentUID", BINARY>> @@
   29636 :> <<"ChapterUID", UINT>> @@
   29637 :> <<"TrackUID", UINT>> @@
   29766 :> <<"AttachmentLink", UINT>> @@
   30113 :> <<"BlockAdditions", MASTER>> @@
   30901 :> <<"OutputSamplingFrequency", FLOAT>> @@
   31657 :> <<"Title", UTF8>> @@
   32123 :> <<"ChannelPositions", BINARY>> @@
   32347 :> <<"SignatureElements", MASTER>> @@
   32379 :> <<"SignatureElementList", MASTER>> @@
   32394 :> <<"SignatureAlgo", UINT>> @@
   32410 :> <<"SignatureHash", UINT>> @@
   32421 :> <<"SignaturePublicKey", BINARY>> @@
   32437 :> <<"Signature", BINARY>> @@
   2274716 :> <<"Language", STRING_>> @@
   2306383 :> <<"TrackTimecodeScale", FLOAT>> @@
   2327523 :> <<"FrameRate", FLOAT>> @@
   2352003 :> <<"DefaultDuration", UINT>> @@
   2459272 :> <<"CodecName", UTF8>> @@
   2536000 :> <<"CodecDownloadURL", STRING_>> @@
   2807729 :> <<"TimecodeScale", UINT>> @@
   3061028 :> <<"ColourSpace", BINARY>> @@
   3126563 :> <<"GammaValue", FLOAT>> @@
   3839639 :> <<"CodecSettings", UTF8>> @@
   3883072 :> <<"CodecInfoURL", STRING_>> @@
   3965867 :> <<"PrevFilename", UTF8>> @@
   3979555 :> <<"PrevUID", BINARY>> @@
   4096955 :> <<"NextFilename", UTF8>> @@
   4110627 :> <<"NextUID", BINARY>> @@
   272869232 :> <<"Chapters", MASTER>> @@
   290298740 :> <<"SeekHead", MASTER>> @@
   307544935 :> <<"Tags", MASTER>> @@
   357149030 :> <<"Info", MASTER>> @@
   374648427 :> <<"Tracks", MASTER>> @@
   408125543 :> <<"Segment", MASTER>> @@
   423732329 :> <<"Attachments", MASTER>> @@
   440786851 :> <<"EBML", MASTER>> @@
   458458727 :> <<"SignatureSlot", MASTER>> @@
   475249515 :> <<"Cues", MASTER>> @@
   524531317 :> <<"Cluster", MASTER>>

TagIDs == DOMAIN MatroskaTags

\* ------------------------------------------------------------------------
\* Text codecs
\* ------------------------------------------------------------------------

\* unicode(s, 'ascii'): every byte below 128
AsciiValid(s) == \A i \in 1..Len(s) : s[i] < 128

\* unicode(s, 'utf-8') succeeds: s is a sequence of well-formed UTF-8
\* sequences as Python 2 accepts them
IsCont(s, i) == i <= Len(s) /\ s[i] \in 128..191

RECURSIVE Utf8ValidFrom(_, _)
Utf8ValidFrom(s, i) ==
    IF i > Len(s) THEN TRUE
    ELSE LET b == s[i]
         IN  IF b < 128 THEN Utf8ValidFrom(s, i + 1)
             ELSE IF b \in 194..223
             THEN IsCont(s, i + 1) /\ Utf8ValidFrom(s, i + 2)
             ELSE IF b \in 224..239
             THEN /\ IsCont(s, i + 1) /\ IsCont(s, i + 2)
                  /\ (b = 224 => s[i + 1] >= 160)
                  /\ Utf8ValidFrom(s, i + 3)
             ELSE IF b \in 240..244
             THEN /\ IsCont(s, i + 1) /\ IsCont(s, i + 2) /\ IsCont(s, i + 3)
                  /\ (b = 240 => s[i + 1] >= 144)
                  /\ (b = 244 => s[i + 1] <= 143)
                  /\ Utf8ValidFrom(s, i + 4)
             ELSE FALSE

Utf8Valid(s) == Utf8ValidFrom(s, 1)

\* unicode(s, 'utf-8') of a valid s: its code points
RECURSIVE Utf8Decode(_, _)
Utf8Decode(s, i) ==
    IF i > Len(s) THEN <<>>
    ELSE LET b == s[i]
         IN  IF b < 128 THEN <<b>> \o Utf8Decode(s, i + 1)
             ELSE IF b < 224
             THEN <<((b % 32) * 64) + (s[i + 1] % 64)>> \o Utf8Decode(s, i + 2)
             ELSE IF b < 240
             THEN <<((b % 16) * 4096) + ((s[i + 1] % 64) * 64) + (s[i + 2] % 64)>>
                  \o Utf8Decode(s, i + 3)
             ELSE <<((b % 8) * 262144) + ((s[i + 1] % 64) * 4096)
                    + ((s[i + 2] % 64) * 64) + (s[i + 3] % 64)>>
                  \o Utf8Decode(s, i + 4)

\* value.encode("utf-8")
RECURSIVE Utf8Encode(_)
Utf8Encode(u) ==
    IF u = <<>> THEN <<>>
    ELSE LET c == Head(u)
             one == IF c < 128 THEN <<c>>
                    ELSE IF c < 2048 THEN <<192 + (c \div 64), 128 + (c % 64)>>
                    ELSE IF c < 65536
                    THEN <<224 + (c \div 4096), 128 + ((c \div 64) % 64), 128 + (c % 64)>>
                    ELSE <<240 + (c \div 262144), 128 + ((c \div 4096) % 64),
                           128 + ((c \div 64) % 64), 128 + (c % 64)>>
         IN  one \o Utf8Encode(Tail(u))

\* ------------------------------------------------------------------------
\* BaseElement: the writers
\* ------------------------------------------------------------------------

\* the 4-byte form kept up to (1 << 28) - 1, whose size field has every bit
\* set (a faulty variant that C16 must reject)
writeSize_AllOnes(size) ==
    IF WLeq(size, W(268435455))
    THEN WPad(WOr(W(268435456), size), 4)
    ELSE WPad(WOr(W(16777216), WDiv32(size)), 4) \o WPad(WMod32(size), 4)

\* BaseElement.writeSize: the 4-byte form up to 2^28 - 2, else the 8-byte form
writeSize(size) ==
    IF WLeq(size, W(268435454))
    THEN WPad(WOr(W(268435456), size), 4)
    ELSE WPad(WOr(W(16777216), WDiv32(size)), 4) \o WPad(WMod32(size), 4)

\* BaseElement.writeInteger: 4 bytes below 2^32, else 8 bytes
writeInteger(value) ==
    IF Len(value) <= 4
    THEN WPad(value, 4)
    ELSE WPad(WDiv32(value), 4) \o WPad(WMod32(value), 4)

\* BaseElement.writeFloat: pack("@d", value)[::-1]; struct.error for a value
\* that is no float
writeFloat(value) ==
    IF value[1] = "float"
    THEN [exc |-> "", str |-> value[2]]
    ELSE [exc |-> "struct.error", str |-> <<>>]

\* the 3-byte branch written without its first byte (a faulty variant that
\* C17 must reject)
writeID_NoLeadByte(elemID) ==
    IF elemID >= 268435456
    THEN [exc |-> "", str |-> WPad(W(elemID), 4)]
    ELSE IF elemID >= 2097152
    THEN [exc |-> "", str |-> <<(elemID \div 256) % 256, elemID % 256>>]
    ELSE IF elemID >= 16384
    THEN IF elemID < 65536
         THEN [exc |-> "", str |-> WPad(W(elemID), 2)]
         ELSE [exc |-> "struct.error", str |-> <<>>]
    ELSE IF elemID >= 128
    THEN IF elemID < 256
         THEN [exc |-> "", str |-> <<elemID>>]
         ELSE [exc |-> "ValueError", str |-> <<>>]
    ELSE [exc |-> "EbmlException", str |-> <<>>]

\* BaseElement.writeID: chr() takes a value below 256, pack(">H") one below
\* 65536 (struct.error, as Python 2.7 raises it)
writeID(elemID) ==
    IF elemID >= 268435456
    THEN [exc |-> "", str |-> WPad(W(elemID), 4)]
    ELSE IF elemID >= 2097152
    THEN [exc |-> "",
          str |-> <<(elemID \div 65536) % 256, (elemID \div 256) % 256, elemID % 256>>]
    ELSE IF elemID >= 16384
    THEN IF elemID < 65536
         THEN [exc |-> "", str |-> WPad(W(elemID), 2)]
         ELSE [exc |-> "struct.error", str |-> <<>>]
    ELSE IF elemID >= 128
    THEN IF elemID < 256
         THEN [exc |-> "", str |-> <<elemID>>]
         ELSE [exc |-> "ValueError", str |-> <<>>]
    ELSE [exc |-> "EbmlException", str |-> <<>>]

\* ------------------------------------------------------------------------
\* The element classes
\* ------------------------------------------------------------------------

\* BaseElement.__init__: the name comes from the registry
elemNameOf(elemID) == IF elemID = 0 THEN "" ELSE MatroskaTags[elemID][1]

MasterElementBase(elemID) ==
    [cls |-> "MasterElementBase", elemID |-> elemID, elemName |-> elemNameOf(elemID),
     childElems |-> <<>>]

SegmentElement(elemID) ==
    [cls |-> "SegmentElement", elemID |-> elemID, elemName |-> elemNameOf(elemID),
     childElems |-> <<>>, hasCluster |-> FALSE]

InfoElement(elemID) ==
    [cls |-> "InfoElement", elemID |-> elemID, elemName |-> elemNameOf(elemID),
     childElems |-> <<>>, durationAdded |-> FALSE]

RootElement ==
    [cls |-> "RootElement", elemID |-> 0, elemName |-> "", childElems |-> <<>>]

\* MasterElement(elemID): the class is chosen by the ID
MasterElement(elemID) ==
    IF elemID = ID_Segment THEN SegmentElement(elemID)
    ELSE IF elemID = ID_Info THEN InfoElement(elemID)
    ELSE MasterElementBase(elemID)

IntElement(elemID, type_, value) ==
    [cls |-> "IntElement", elemID |-> elemID, elemName |-> elemNameOf(elemID),
     type_ |-> type_, value |-> value]

FloatElement(elemID, value) ==
    [cls |-> "FloatElement", elemID |-> elemID, elemName |-> elemNameOf(elemID),
     value |-> value]

StringElement(elemID, value) ==
    [cls |-> "StringElement", elemID |-> elemID, elemName |-> elemNameOf(elemID),
     value |-> value]

Utf8Element(elemID, value) ==
    [cls |-> "Utf8Element", elemID |-> elemID, elemName |-> elemNameOf(elemID),
     value |-> value]

BinaryElement(elemID, value) ==
    [cls |-> "BinaryElement", elemID |-> elemID, elemName |-> elemNameOf(elemID),
     value |-> value]

IsMaster(e) ==
    e.cls \in {"MasterElementBase", "SegmentElement", "InfoElement", "RootElement"}

\* MasterElementBase.addChildElem
MasterAddChildElem(self, childElem) ==
    [self EXCEPT !.childElems = Append(@, childElem)]

\* addChildElem without InfoElement's override: a Duration read from the
\* input is kept; a faulty variant that C2 must reject
addChildElem_NoSkip(self, childElem) == MasterAddChildElem(self, childElem)

\* addChildElem as the object's class defines it: an Info skips a Duration
addChildElem(self, childElem) ==
    IF self.cls = "InfoElement" /\ childElem.elemName = "Duration"
    THEN self
    ELSE MasterAddChildElem(self, childElem)

\* InfoElement.writeData, first half: the fake Duration is appended once
InfoAddDuration(self) ==
    IF ~self.durationAdded
    THEN [MasterAddChildElem(self, FloatElement(ID_Duration, FAKE_DURATION))
            EXCEPT !.durationAdded = TRUE]
    ELSE self

\* writeOwnSize without SegmentElement's override: the real size is written
\* (a faulty variant that C1 must reject)
writeOwnSize_RealSize(self, childSize) == writeSize(W(childSize))

\* writeOwnSize: a Segment pretends the largest size
writeOwnSize(self, childSize) ==
    IF self.cls = "SegmentElement" THEN writeSize(SEGMENT_SIZE) ELSE writeSize(W(childSize))

\* writeElement(f) and writeData() of every class.  A writer changes the
\* object it writes (durationAdded), so each returns the object as it is left:
\*   writeElement: [exc, out (what f received), self]
\*   writeData:    [exc, data, self]
RECURSIVE writeElement(_)
RECURSIVE writeData(_)
RECURSIVE MasterWriteChildren(_)

\* the loop of MasterElementBase.writeData over the children
MasterWriteChildren(childElems) ==
    IF childElems = <<>>
    THEN [exc |-> "", data |-> <<>>, childElems |-> <<>>]
    ELSE LET h == writeElement(Head(childElems))
         IN  IF h.exc # ""
             THEN [exc |-> h.exc, data |-> <<>>,
                   childElems |-> <<h.self>> \o Tail(childElems)]
             ELSE LET t == MasterWriteChildren(Tail(childElems))
                  IN  [exc |-> t.exc, data |-> h.out \o t.data,
                       childElems |-> <<h.self>> \o t.childElems]

writeData(self) ==
    IF IsMaster(self)
    THEN LET s == IF self.cls = "InfoElement" THEN InfoAddDuration(self) ELSE self
             r == MasterWriteChildren(s.childElems)
         IN  [exc |-> r.exc, data |-> r.data,
              self |-> [s EXCEPT !.childElems = r.childElems]]
    ELSE IF self.cls = "IntElement"
    THEN [exc |-> "", data |-> writeInteger(self.value), self |-> self]
    ELSE IF self.cls = "FloatElement"
    THEN [exc |-> writeFloat(self.value).exc, data |-> writeFloat(self.value).str,
          self |-> self]
    ELSE IF self.cls = "StringElement"
    THEN \* value.encode("ascii"): the value was decoded from ASCII
         [exc |-> "", data |-> self.value, self |-> self]
    ELSE IF self.cls = "Utf8Element"
    THEN [exc |-> "", data |-> Utf8Encode(self.value), self |-> self]
    ELSE \* BinaryElement
         [exc |-> "", data |-> self.value, self |-> self]

\* writeElement with the size taken from the children held before writeData
\* ran, so that what writeData adds is not counted (a faulty variant that C24
\* must reject)
writeElement_SizeBeforeData(self) ==
    IF self.cls = "RootElement"
    THEN LET d == writeData(self)
         IN  [exc |-> d.exc, out |-> d.data, self |-> d.self]
    ELSE LET id == writeID(self.elemID)
             d == writeData(self)
             before == IF IsMaster(self)
                       THEN StrLen(MasterWriteChildren(self.childElems).data)
                       ELSE StrLen(d.data)
         IN  [exc |-> "", out |-> id.str \o writeOwnSize(self, before) \o d.data,
              self |-> d.self]

writeElement(self) ==
    IF self.cls = "RootElement"
    THEN \* RootElement.writeElement: f.write(self.writeData())
         LET d == writeData(self)
         IN  [exc |-> d.exc, out |-> d.data, self |-> d.self]
    ELSE \* BaseElement.writeElement: ID, then size, then data
         LET id == writeID(self.elemID)
         IN  IF id.exc # ""
             THEN [exc |-> id.exc, out |-> <<>>, self |-> self]
             ELSE LET d == writeData(self)
                  IN  IF d.exc # ""
                      THEN [exc |-> d.exc, out |-> id.str, self |-> d.self]
                      ELSE [exc |-> "",
                            out |-> id.str \o writeOwnSize(self, StrLen(d.data)) \o d.data,
                            self |-> d.self]

\* ------------------------------------------------------------------------
\* The parser's state
\* ------------------------------------------------------------------------

VARIABLES
    forest,         \* the elements the producer of the input wrote
    input,          \* the bytes of the source (sys.stdin, or the file behind gio)
    tell,           \* self._tell, a wide number
    size,           \* self.size, a wide number
    live_mode,      \* self.live_mode: the location is "-"
    clusters_before_padding,   \* the value of NUM_CLUSTERS_BEFORE_PADDING in force
    max_repeated,   \* the value of MAX_NUM_REPEATED_ELEMS in force
    top_silent,     \* the argument silent of the outermost call of parse
    clusterIdx,     \* self.clusterIdx
    stdout,         \* the bytes written to self.stdout
    stderr,         \* the print statements executed on sys.stderr, in order
    stack,          \* the active calls of Ebml.parse, the outermost first
    pc,             \* "init" | "parse" | "returned" | "raised"
    result,         \* what the outermost parse returned, or the exception it raised
    arg,            \* the arguments of the last call made on its own (a writer, a seek)
    ret,            \* what that call returned or raised
    refcnt,         \* DlnaFuse.refcnt
    children        \* the capture processes spawned, each "running", "signalled"
                    \* or "exited"; self.process is the last

vars == <<forest, input, tell, size, live_mode, clusters_before_padding, max_repeated, top_silent, refcnt, children, clusterIdx,
          stdout, stderr, stack, pc, result, arg, ret>>

\* ------------------------------------------------------------------------
\* Ebml: reading
\* ------------------------------------------------------------------------

\* the offset of the next unread byte of the source, at most its length
Pos ==
    IF WFits(tell) /\ WInt(tell) <= Len(input) THEN WInt(tell) ELSE Len(input)

\* what read(length) returns at offset p of the source src: the bytes there
\* are, at most length
ReadAt(src, p, length) ==
    SubSeq(src, p + 1, IF p + length < Len(src) THEN p + length ELSE Len(src))

\* read(length) for a wide length
ReadWideAt(src, p, length) ==
    IF WFits(length) /\ WInt(length) < Len(src) - p
    THEN ReadAt(src, p, WInt(length))
    ELSE ReadAt(src, p, Len(src) - p)

\* the length class of a leading byte: the position of its highest set bit
\* among the first `most` bits, 0 when none of them is set
LengthClass(b1b, most) ==
    LET hit == {k \in 1..most : b1b > 0 /\ BitSet(b1b, 2 ^ (8 - k))}
    IN  IF hit = {} THEN 0 ELSE CHOOSE k \in hit : \A j \in hit : k <= j

\* readID that takes the length marker off the first byte, as readSize does
\* (a faulty variant that C29 must reject)
readID_WithoutMarker(src, p) ==
    LET b1 == ReadAt(src, p, 1)
    IN  IF b1 = <<>>
        THEN [exc |-> "EOFError", id |-> 0, n |-> 0]
        ELSE LET k == LengthClass(b1[1], 4)
                 rest == ReadAt(src, p + 1, k - 1)
             IN  IF k = 0
                 THEN [exc |-> "EbmlException", id |-> 0, n |-> 1]
                 ELSE IF Len(rest) < k - 1
                 THEN [exc |-> "struct.error", id |-> 0, n |-> 1 + Len(rest)]
                 ELSE [exc |-> "", id |-> WInt(WNorm(<<b1[1] - 2 ^ (8 - k)>> \o rest)), n |-> k]

\* Ebml.readID at offset p: [exc, id, n (bytes consumed)]
readID(src, p) ==
    LET b1 == ReadAt(src, p, 1)
    IN  IF b1 = <<>>
        THEN [exc |-> "EOFError", id |-> 0, n |-> 0]
        ELSE LET k == LengthClass(b1[1], 4)
                 rest == ReadAt(src, p + 1, k - 1)
             IN  IF k = 0
                 THEN [exc |-> "EbmlException", id |-> 0, n |-> 1]
                 ELSE IF Len(rest) < k - 1
                 THEN [exc |-> "struct.error", id |-> 0, n |-> 1 + Len(rest)]
                 ELSE [exc |-> "", id |-> WInt(WNorm(b1 \o rest)), n |-> k]

\* Ebml.readSize at offset p: [exc, size (wide), n (bytes consumed)]
readSize(src, p) ==
    LET b1 == ReadAt(src, p, 1)
    IN  IF b1 = <<>>
        THEN [exc |-> "TypeError", size |-> <<>>, n |-> 0]
        ELSE LET k == LengthClass(b1[1], 8)
                 rest == ReadAt(src, p + 1, k - 1)
             IN  IF k = 0
                 THEN [exc |-> "EbmlException", size |-> <<>>, n |-> 1]
                 ELSE IF Len(rest) < k - 1
                 THEN [exc |-> "struct.error", size |-> <<>>, n |-> 1 + Len(rest)]
                 ELSE [exc |-> "",
                       size |-> WNorm(<<b1[1] - 2 ^ (8 - k)>> \o rest),
                       n |-> k]

\* Ebml.readInteger(length) at offset p: [exc, value (wide), n]
readInteger(src, p, length) ==
    IF ~(WFits(length) /\ WInt(length) \in 1..8)
    THEN [exc |-> "EbmlException", value |-> <<>>, n |-> 0]
    ELSE LET s == ReadAt(src, p, WInt(length))
         IN  IF Len(s) < WInt(length)
             THEN [exc |-> IF WInt(length) = 1 THEN "TypeError" ELSE "struct.error",
                   value |-> <<>>, n |-> Len(s)]
             ELSE [exc |-> "", value |-> WNorm(s), n |-> Len(s)]

\* the normalisation of a denormal single: the significand shifted left until
\* its bit 23 is set, with the number of shifts
RECURSIVE Normalise(_, _)
Normalise(mant, k) ==
    IF mant >= 8388608 THEN <<mant - 8388608, k>> ELSE Normalise(2 * mant, k + 1)

\* unpack('@f', s[::-1]): the 4 bytes of a single, as the double Python holds
SingleToDouble(s) ==
    LET sign == s[1] \div 128
        exp == ((s[1] % 128) * 2) + (s[2] \div 128)
        mant == ((s[2] % 128) * 65536) + (s[3] * 256) + s[4]
        norm == IF exp = 0 /\ mant # 0 THEN Normalise(mant, 0) ELSE <<mant, 0>>
        e == IF exp = 255 THEN 2047
             ELSE IF exp = 0 THEN (IF mant = 0 THEN 0 ELSE 897 - norm[2])
             ELSE exp + 896
        m == norm[1]
    IN  <<(sign * 128) + (e \div 16),
          ((e % 16) * 16) + (m \div 524288),
          (m \div 2048) % 256,
          (m \div 8) % 256,
          (m % 8) * 32,
          0, 0, 0>>

\* Ebml.readFloat(length) at offset p: [exc, value, n]
readFloat(src, p, length) ==
    IF length = W(4) \/ length = W(8)
    THEN LET s == ReadAt(src, p, WInt(length))
         IN  IF Len(s) < WInt(length)
             THEN [exc |-> "struct.error", value |-> EXTENDED, n |-> Len(s)]
             ELSE [exc |-> "",
                   value |-> <<"float", IF Len(s) = 4 THEN SingleToDouble(s) ELSE s>>,
                   n |-> Len(s)]
    ELSE IF length = W(10)
    THEN [exc |-> "", value |-> EXTENDED, n |-> 0]
    ELSE [exc |-> "EbmlException", value |-> EXTENDED, n |-> 0]

\* ------------------------------------------------------------------------
\* Ebml.parse: one call is a frame of the stack, one action is one pass
\* through the body of its loop (or its return, with what the caller does
\* with the returned value)
\* ------------------------------------------------------------------------

\* the locals of a call parse(from_, to, parentElem, indent_level, silent)
Frame(to, parentElem, indent_level, silent) ==
    [to |-> to, parentElem |-> parentElem, indent_level |-> indent_level,
     silent |-> silent, last_key_freq |-> <<"", 0>>]

\* the innermost call
Top == stack[Len(stack)]

\* the part of the state a step of parse changes
Now ==
    [tell |-> tell, clusterIdx |-> clusterIdx, stdout |-> stdout, stderr |-> stderr,
     stack |-> stack, pc |-> pc, result |-> result]

Becomes(s) ==
    /\ tell' = s.tell
    /\ clusterIdx' = s.clusterIdx
    /\ stdout' = s.stdout
    /\ stderr' = s.stderr
    /\ stack' = s.stack
    /\ pc' = s.pc
    /\ result' = s.result
    /\ UNCHANGED <<forest, input, size, live_mode, clusters_before_padding, max_repeated, top_silent, refcnt, children, arg, ret>>

\* print >> sys.stderr
Log(s, lines) == [s EXCEPT !.stderr = @ \o lines]

\* f.write on self.stdout
Write(s, str) == [s EXCEPT !.stdout = @ \o str]

\* the innermost frame's parentElem is replaced by the object as it now is
SetParent(s, elem) == [s EXCEPT !.stack[Len(s.stack)].parentElem = elem]

\* the clause "except (EbmlException, UnicodeDecodeError)" of the loop body
Caught(exc) == exc \in {"EbmlException", "UnicodeDecodeError"}

\* an exception raised inside the try of the innermost call: the two caught
\* kinds are logged and the loop goes on, any other leaves every active call
Throw(s, exc) ==
    IF Caught(exc)
    THEN Log(s, << <<"WARNING", exc>> >>)
    ELSE [s EXCEPT !.pc = "raised", !.result = exc, !.stack = <<>>]

\* self.seek(offset, mode) of the parser, mode 0 or 1, in state s: both
\* sources take the displacement, offset - _tell for mode 0 and offset for
\* mode 1, refuse a negative one (IOError from StdinEbml, gio.Error from
\* GioEbml) and else add it to _tell
seek(s, offset, mode) ==
    IF mode = 0 /\ WLess(offset, s.tell)
    THEN Throw(s, IF live_mode THEN "IOError" ELSE "gio.Error")
    ELSE [s EXCEPT !.tell = IF mode = 0 THEN offset ELSE WAdd(@, offset)]

\* the line "+ n key" that sums up a run of repeated elements
SummaryLine(f) ==
    <<"+", f.indent_level, f.last_key_freq[2] - max_repeated - 1,
      f.last_key_freq[1]>>

\* lines 452-473: the count of repeated keys, whether this element's lines
\* are suppressed, and the summary printed when the key changes
Throttle(f, key) ==
    IF key = f.last_key_freq[1]
    THEN [last_key_freq |-> <<key, f.last_key_freq[2] + 1>>,
          suppress_print |->
              IF f.last_key_freq[2] + 1 > max_repeated THEN TRUE ELSE f.silent,
          lines |-> <<>>]
    ELSE [last_key_freq |-> <<key, 0>>,
          suppress_print |-> f.silent,
          lines |-> IF ~f.silent /\ f.last_key_freq[2] > 0
                    THEN <<SummaryLine(f)>> ELSE <<>>]

\* the header of the element at the cursor
HdrID == readID(input, Pos)
HdrSize == readSize(input, Pos + HdrID.n)
HeaderOk == HdrID.exc = "" /\ HdrSize.exc = ""
\* the cursor after the header
AfterHeader == WAdd(tell, W(HdrID.n + HdrSize.n))
\* the loop condition: self.tell() < to
InRange == WLess(tell, Top.to)

\* lines 452-473 for a known element: the frame's count is updated and the
\* element's line printed unless suppressed
Announce(s, key, th) ==
    Log([s EXCEPT !.stack[Len(s.stack)].last_key_freq = th.last_key_freq],
        th.lines \o
        (IF th.suppress_print THEN <<>>
         ELSE << <<"elem", Top.indent_level, key, HdrSize.size, tell>> >>))

\* the Void block a Cluster receives
voidElem == BinaryElement(ID_Void, Zeros(PADDING_SIZE))

\* the padding put in front of the Cluster's children instead of behind them
\* (a faulty variant that C7 must reject)
PadCluster_InFront(value, idx) ==
    IF idx % clusters_before_padding = 0
    THEN [value EXCEPT !.childElems = <<voidElem>> \o @]
    ELSE value

\* lines 495-500: the padding of a completed Cluster
PadCluster(value, idx) ==
    IF idx % clusters_before_padding = 0 THEN addChildElem(value, voidElem) ELSE value

\* lines 494-507: what the caller does with the value its recursive call
\* returned, s being the state with the callee's frame removed
AfterChild(s, value, masterElem) ==
    LET parentElem == s.stack[Len(s.stack)].parentElem
    IN  IF live_mode /\ parentElem.elemName = "Segment"
        THEN IF value.cls = "dict"
             THEN Throw(s, "AttributeError")
             ELSE LET isCluster == value.elemName = "Cluster"
                      v == IF isCluster THEN PadCluster(value, s.clusterIdx) ELSE value
                      s1 == IF isCluster
                            THEN [s EXCEPT !.clusterIdx = @ + 1] ELSE s
                      w == writeElement(v)
                  IN  IF value.elemName # "SeekHead"
                      THEN IF w.exc = ""
                           THEN Write(s1, w.out)
                           ELSE Throw(Write(s1, w.out), w.exc)
                      ELSE s1
        ELSE IF live_mode
        THEN SetParent(s, addChildElem(parentElem, masterElem))
        ELSE s

\* "return value" of the innermost call
Return(s, value) ==
    IF Len(s.stack) = 1
    THEN [s EXCEPT !.stack = <<>>, !.pc = "returned", !.result = value]
    ELSE AfterChild([s EXCEPT !.stack = SubSeq(@, 1, Len(@) - 1)],
                    value, s.stack[Len(s.stack)].parentElem)

\* parse(location): Ebml.parse(parentElem=RootElement()) begins: to is the
\* size of the source, from_ is 0
ParseTop ==
    /\ pc = "init"
    /\ Becomes(seek([Now EXCEPT !.pc = "parse",
                                !.stack = <<Frame(size, RootElement, 0, top_silent)>>],
                    W(0), 0))

\* the loop ends (tell >= to): the summary of a last run, then return parentElem
LoopExit ==
    /\ pc = "parse"
    /\ ~InRange
    /\ Becomes(Return(Log(Now, IF ~Top.silent
                                  /\ Top.last_key_freq[2] > max_repeated
                               THEN <<SummaryLine(Top)>> ELSE <<>>),
                      Top.parentElem))

\* the end of the input taken for an error that leaves every active call (a
\* faulty variant that C14 must reject)
EndOfInput_Raises ==
    /\ pc = "parse"
    /\ InRange
    /\ HdrID.exc = "EOFError"
    /\ Becomes([Now EXCEPT !.pc = "raised", !.result = "EOFError", !.stack = <<>>])

\* readID finds no byte: EOFError, return parentElem
EndOfInput ==
    /\ pc = "parse"
    /\ InRange
    /\ HdrID.exc = "EOFError"
    /\ Becomes(Return(Now, Top.parentElem))

\* an unregistered ID whose payload is not skipped (a faulty variant that
\* C10 must reject)
SkipUnknown_NoSeek ==
    /\ pc = "parse"
    /\ InRange
    /\ HeaderOk
    /\ HdrID.id \notin TagIDs
    /\ Becomes([Now EXCEPT !.tell = AfterHeader])

\* an ID the registry does not hold: seek(size, 1)
SkipUnknown ==
    /\ pc = "parse"
    /\ InRange
    /\ HeaderOk
    /\ HdrID.id \notin TagIDs
    /\ Becomes(seek([Now EXCEPT !.tell = AfterHeader], HdrSize.size, 1))

\* the start of the element taken for the place its children begin (a
\* faulty variant that C27 must reject)
ChildFrom_StartOfs == tell

\* line 476, tell = self.tell() behind the header: the from_ of the recursive
\* call, and with the size its to
ChildFrom == AfterHeader

\* a Segment that makes its parent and itself be written whatever the mode (a
\* faulty variant that C22 must reject)
EnterMaster_WritesInDump ==
    /\ pc = "parse"
    /\ InRange
    /\ HeaderOk
    /\ HdrID.id \in TagIDs
    /\ MatroskaTags[HdrID.id][2] = MASTER
    /\ LET key == MatroskaTags[HdrID.id][1]
           th == Throttle(Top, key)
           s0 == Log(Announce([Now EXCEPT !.tell = AfterHeader], key, th),
                     IF th.suppress_print THEN <<>>
                     ELSE << <<"first child ofs", AfterHeader>> >>)
           masterElem == MasterElement(HdrID.id)
           call == Frame(WAdd(ChildFrom, HdrSize.size), masterElem,
                         Top.indent_level + 1, th.suppress_print)
       IN  IF masterElem.elemName = "Segment"
           THEN LET w1 == writeElement(Top.parentElem)
                    s1 == SetParent(Write(s0, w1.out), w1.self)
                    w2 == writeElement(masterElem)
                IN  IF w1.exc # "" THEN Becomes(Throw(s1, w1.exc))
                    ELSE IF w2.exc # "" THEN Becomes(Throw(Write(s1, w2.out), w2.exc))
                    ELSE Becomes(seek([Write(s1, w2.out) EXCEPT
                                        !.stack = Append(@, [call EXCEPT !.parentElem = w2.self])],
                                      ChildFrom, 0))
           ELSE Becomes(seek([s0 EXCEPT !.stack = Append(@, call)], ChildFrom, 0))

\* a Master: in live mode a Segment makes its parent and then itself be
\* written; then the recursive call begins with its seek(from_, 0)
EnterMaster ==
    /\ pc = "parse"
    /\ InRange
    /\ HeaderOk
    /\ HdrID.id \in TagIDs
    /\ MatroskaTags[HdrID.id][2] = MASTER
    /\ LET key == MatroskaTags[HdrID.id][1]
           th == Throttle(Top, key)
           s0 == Log(Announce([Now EXCEPT !.tell = AfterHeader], key, th),
                     IF th.suppress_print THEN <<>>
                     ELSE << <<"first child ofs", AfterHeader>> >>)
           masterElem == MasterElement(HdrID.id)
           call == Frame(WAdd(ChildFrom, HdrSize.size), masterElem,
                         Top.indent_level + 1, th.suppress_print)
       IN  IF live_mode /\ masterElem.elemName = "Segment"
           THEN LET w1 == writeElement(Top.parentElem)
                    s1 == SetParent(Write(s0, w1.out), w1.self)
                    w2 == writeElement(masterElem)
                IN  IF w1.exc # "" THEN Becomes(Throw(s1, w1.exc))
                    ELSE IF w2.exc # "" THEN Becomes(Throw(Write(s1, w2.out), w2.exc))
                    ELSE Becomes(seek([Write(s1, w2.out) EXCEPT
                                        !.stack = Append(@, [call EXCEPT !.parentElem = w2.self])],
                                      ChildFrom, 0))
           ELSE Becomes(seek([s0 EXCEPT !.stack = Append(@, call)], ChildFrom, 0))

\* lines 508-532: the value of a leaf of the given type, read at offset p:
\* [exc, elem, n (bytes consumed), line (the value as printed)]
Leaf(src, id, type_, p, length) ==
    IF type_ \in {SINT, UINT, DATE}
    THEN LET r == readInteger(src, p, length)
         IN  [exc |-> r.exc, n |-> r.n, elem |-> IntElement(id, type_, r.value),
              line |-> <<"int", r.value>>]
    ELSE IF type_ = FLOAT
    THEN LET r == readFloat(src, p, length)
         IN  [exc |-> r.exc, n |-> r.n, elem |-> FloatElement(id, r.value),
              line |-> <<"float", r.value>>]
    ELSE LET s == ReadWideAt(src, p, length)
         IN  IF type_ = STRING_
             THEN [exc |-> IF AsciiValid(s) THEN "" ELSE "UnicodeDecodeError",
                   n |-> Len(s), elem |-> StringElement(id, s),
                   line |-> <<"string", s>>]
             ELSE IF type_ = UTF8
             THEN [exc |-> IF Utf8Valid(s) THEN "" ELSE "UnicodeDecodeError",
                   n |-> Len(s),
                   elem |-> Utf8Element(id, IF Utf8Valid(s) THEN Utf8Decode(s, 1) ELSE <<>>),
                   line |-> <<"utf8", s>>]
             ELSE [exc |-> "", n |-> Len(s), elem |-> BinaryElement(id, s),
                   line |-> <<"binary", SubSeq(s, 1, IF Len(s) < 4 THEN Len(s) ELSE 4)>>]

\* a leaf that is attached only when its line is printed (a faulty variant
\* that C21 must reject)
ReadLeaf_SilentDropped ==
    /\ pc = "parse"
    /\ InRange
    /\ HeaderOk
    /\ HdrID.id \in TagIDs
    /\ MatroskaTags[HdrID.id][2] # MASTER
    /\ LET key == MatroskaTags[HdrID.id][1]
           th == Throttle(Top, key)
           leaf == Leaf(input, HdrID.id, MatroskaTags[HdrID.id][2],
                        Pos + HdrID.n + HdrSize.n, HdrSize.size)
           s0 == Announce([Now EXCEPT !.tell = WAdd(AfterHeader, W(leaf.n))], key, th)
       IN  IF leaf.exc # ""
           THEN Becomes(Throw(s0, leaf.exc))
           ELSE IF th.suppress_print THEN Becomes(s0)
           ELSE Becomes(SetParent(Log(s0, <<leaf.line>>),
                                  addChildElem(Top.parentElem, leaf.elem)))

\* a leaf: its value is read and attached to parentElem; an exception of the
\* decoder is thrown inside the try
ReadLeaf ==
    /\ pc = "parse"
    /\ InRange
    /\ HeaderOk
    /\ HdrID.id \in TagIDs
    /\ MatroskaTags[HdrID.id][2] # MASTER
    /\ LET key == MatroskaTags[HdrID.id][1]
           th == Throttle(Top, key)
           leaf == Leaf(input, HdrID.id, MatroskaTags[HdrID.id][2],
                        Pos + HdrID.n + HdrSize.n, HdrSize.size)
           s0 == Announce([Now EXCEPT !.tell = WAdd(AfterHeader, W(leaf.n))], key, th)
       IN  IF leaf.exc # ""
           THEN Becomes(Throw(s0, leaf.exc))
           ELSE Becomes(SetParent(Log(s0, IF th.suppress_print THEN <<>>
                                          ELSE <<leaf.line>>),
                                  addChildElem(Top.parentElem, leaf.elem)))

Next ==
    \/ ParseTop
    \/ LoopExit
    \/ EndOfInput
    \/ SkipUnknown
    \/ EnterMaster
    \/ ReadLeaf


\* ------------------------------------------------------------------------
\* Ebml.parse on a malformed header
\* ------------------------------------------------------------------------

\* the empty dict that line 432 binds to "node" and line 445 returns
emptyNode == [cls |-> "dict"]

\* lines 441-445: readID raises EbmlException on a first byte without a
\* length bit (the byte is consumed): "ERROR" is printed and the call
\* returns it
BadID ==
    /\ pc = "parse"
    /\ InRange
    /\ HdrID.exc = "EbmlException"
    /\ Becomes(Return(Log([Now EXCEPT !.tell = WAdd(tell, W(HdrID.n))],
                          << <<"ERROR", "EbmlException">> >>),
                      emptyNode))

\* an exception that leaves the innermost call and arrives in its caller at
\* the call of line 490, inside the caller's try; the outermost call has no
\* caller
Propagate(s, exc) ==
    IF Len(s.stack) = 1
    THEN [s EXCEPT !.pc = "raised", !.result = exc, !.stack = <<>>]
    ELSE Throw([s EXCEPT !.stack = SubSeq(@, 1, Len(@) - 1)], exc)

\* line 446: readSize raises EbmlException on a zero first byte (the byte is
\* consumed); the call stands outside the try of line 474
BadSize ==
    /\ pc = "parse"
    /\ InRange
    /\ HdrID.exc = ""
    /\ HdrSize.exc = "EbmlException"
    /\ Becomes(Propagate([Now EXCEPT !.tell = AfterHeader], "EbmlException"))

\* the steps of parse on the inputs that hold malformed headers
NextMalformed ==
    \/ Next
    \/ BadID
    \/ BadSize

\* ------------------------------------------------------------------------
\* Calls made on their own: a writer or a seek applied to chosen arguments
\* ------------------------------------------------------------------------

\* the state before a call on the arguments `args`, made on a source that
\* delivers `src`: no parse is running
InitCall(args, src, modes) ==
    /\ forest = <<>>
    /\ input = src
    /\ live_mode \in modes
    /\ size = IF live_mode THEN Pow256(8) ELSE W(Len(input))
    /\ clusters_before_padding = NUM_CLUSTERS_BEFORE_PADDING
    /\ max_repeated = MAX_NUM_REPEATED_ELEMS
    /\ top_silent = FALSE
    /\ refcnt = 0
    /\ children = <<>>
    /\ tell = W(0)
    /\ clusterIdx = 0
    /\ stdout = <<>>
    /\ stderr = <<>>
    /\ stack = <<>>
    /\ pc = "call"
    /\ result = "none"
    /\ arg \in args
    /\ ret = "none"

\* BaseElement.writeSize(arg): the bytes it returns become the source
CallWriteSize ==
    /\ pc = "call"
    /\ pc' = "written"
    /\ input' = writeSize(arg)
    /\ UNCHANGED <<forest, tell, size, live_mode, clusters_before_padding, max_repeated, top_silent, refcnt, children, clusterIdx,
                   stdout, stderr, stack, result, arg, ret>>

\* Ebml.readSize on those bytes
CallReadSize ==
    /\ pc = "written"
    /\ pc' = "called"
    /\ ret' = readSize(input, Pos)
    /\ tell' = WAdd(tell, W(ret'.n))
    /\ UNCHANGED <<forest, input, size, live_mode, clusters_before_padding, max_repeated, top_silent, refcnt, children, clusterIdx,
                   stdout, stderr, stack, result, arg>>

NextSize ==
    \/ CallWriteSize
    \/ CallReadSize

\* BaseElement.writeID of an element whose elemID is arg
CallWriteID ==
    /\ pc = "call"
    /\ pc' = "called"
    /\ ret' = writeID(arg)
    /\ UNCHANGED <<forest, input, tell, size, live_mode, clusters_before_padding, max_repeated, top_silent, refcnt, children,
                   clusterIdx, stdout, stderr, stack, result, arg>>

NextID == CallWriteID

\* lines 598-602: the loop of StdinEbml.seek at _tell = t with avail bytes
\* left on stdin: each pass reads a block of at most 1024 * 1024 bytes, drops
\* what sys.stdin.read delivered and adds the size of the block to _tell.
\* [tell (_tell afterwards), taken (bytes taken from stdin)]
RECURSIVE SkipLoop(_, _, _, _)
SkipLoop(skip, t, avail, taken) ==
    IF skip = 0 THEN [tell |-> t, taken |-> taken]
    ELSE LET chunk == IF skip < 1048576 THEN skip ELSE 1048576
             got == IF chunk < avail THEN chunk ELSE avail
         IN  SkipLoop(skip - chunk, t + chunk, avail - got, taken + got)

\* StdinEbml.seek with the bytes dropped before the direction is checked, a
\* negative count read as "up to the end" (a faulty variant that C18 must
\* reject)
StdinSeek_MovesFirst(t, avail, offset, mode) ==
    IF mode \notin {0, 1} THEN [exc |-> "ValueError", tell |-> t, taken |-> 0]
    ELSE LET skip == IF mode = 0 THEN offset - t ELSE offset
         IN  IF skip < 0 THEN [exc |-> "IOError", tell |-> t, taken |-> avail]
             ELSE [exc |-> ""] @@ SkipLoop(skip, t, avail, 0)

\* StdinEbml.seek(offset, mode) at _tell = t with avail bytes left on stdin:
\* [exc, tell, taken]
StdinSeek(t, avail, offset, mode) ==
    IF mode \notin {0, 1} THEN [exc |-> "ValueError", tell |-> t, taken |-> 0]
    ELSE LET skip == IF mode = 0 THEN offset - t ELSE offset
         IN  IF skip < 0 THEN [exc |-> "IOError", tell |-> t, taken |-> 0]
             ELSE [exc |-> ""] @@ SkipLoop(skip, t, avail, 0)

\* GioEbml.seek that fails only ahead of the start of the file, as if the
\* stream could go back (a faulty variant that C19 must reject)
GioSeek_Backwards(t, sz, avail, offset, mode) ==
    IF mode \notin {0, 1, 2} THEN [exc |-> "ValueError", tell |-> t, taken |-> 0]
    ELSE LET skip == IF mode = 0 THEN offset - t
                     ELSE IF mode = 1 THEN offset
                     ELSE (sz - t) + offset
         IN  IF t + skip < 0 THEN [exc |-> "gio.Error", tell |-> t, taken |-> 0]
             ELSE [exc |-> "", tell |-> t + skip,
                   taken |-> IF skip < 0 THEN 0 ELSE IF skip < avail THEN skip ELSE avail]

\* GioEbml.seek(offset, mode) at _tell = t on a file of sz bytes of which
\* avail are left: buffer.skip passes over the bytes there are
GioSeek(t, sz, avail, offset, mode) ==
    IF mode \notin {0, 1, 2} THEN [exc |-> "ValueError", tell |-> t, taken |-> 0]
    ELSE LET skip == IF mode = 0 THEN offset - t
                     ELSE IF mode = 1 THEN offset
                     ELSE (sz - t) + offset
         IN  IF skip < 0 THEN [exc |-> "gio.Error", tell |-> t, taken |-> 0]
             ELSE [exc |-> "", tell |-> t + skip,
                   taken |-> IF skip < avail THEN skip ELSE avail]

\* the offsets and modes a caller passes to seek, and the lengths to read
MaxSeek == 4
SeekModes == 0..3

\* the source of parse(location): StdinEbml for "-", else GioEbml
Seek(t, avail, offset, mode) ==
    IF live_mode THEN StdinSeek(t, avail, offset, mode)
    ELSE GioSeek(t, WInt(size), avail, offset, mode)

\* a call of seek on the open source; the bytes between the old and the new
\* position are read and dropped (sys.stdin.read, buffer.skip)
CallSeek ==
    /\ pc \in {"call", "called"}
    /\ WInt(tell) <= Len(input)
    /\ \E offset \in (0 - MaxSeek)..MaxSeek, mode \in SeekModes :
           LET r == Seek(WInt(tell), Len(input) - Pos, offset, mode)
           IN  /\ arg' = [op |-> "seek", offset |-> offset, mode |-> mode]
               /\ ret' = [exc |-> r.exc, str |-> <<>>, taken |-> r.taken]
               /\ tell' = W(r.tell)
    /\ pc' = "called"
    /\ UNCHANGED <<forest, input, size, live_mode, clusters_before_padding, max_repeated, top_silent, refcnt, children, clusterIdx,
                   stdout, stderr, stack, result>>

\* a call of read(length) on the open source
CallRead ==
    /\ pc \in {"call", "called"}
    /\ WInt(tell) <= Len(input)
    /\ \E length \in 1..2 :
           /\ arg' = [op |-> "read", offset |-> length, mode |-> 0]
           /\ ret' = [exc |-> "", str |-> ReadAt(input, Pos, length),
                       taken |-> Len(ReadAt(input, Pos, length))]
           /\ tell' = WAdd(tell, W(Len(ret'.str)))
    /\ pc' = "called"
    /\ UNCHANGED <<forest, input, size, live_mode, clusters_before_padding, max_repeated, top_silent, refcnt, children, clusterIdx,
                   stdout, stderr, stack, result>>

NextSource ==
    \/ CallSeek
    \/ CallRead

\* the lines of a log that announce a decoded header: its depth, name, size
\* and offset
Headers(log) == SelectSeq(log, LAMBDA l : l[1] = "elem")

\* the program is run a second time on the same bytes, now as a file
\* (GioEbml, no live mode); how the live run ended and the headers it decoded
\* are kept
RunAgain ==
    /\ pc \in {"returned", "raised"}
    /\ live_mode
    /\ arg' = [pc |-> pc, headers |-> Headers(stderr), tell |-> tell]
    /\ live_mode' = FALSE
    /\ size' = W(Len(input))
    /\ tell' = W(0)
    /\ clusterIdx' = 0
    /\ stdout' = <<>>
    /\ stderr' = <<>>
    /\ stack' = <<>>
    /\ pc' = "init"
    /\ result' = "none"
    /\ UNCHANGED <<forest, input, clusters_before_padding, max_repeated, top_silent, refcnt, children, ret>>

NextTwice ==
    \/ NextMalformed
    \/ RunAgain

\* the largest value of MAX_NUM_REPEATED_ELEMS tried besides the program's own
MaxRepeated == 1

\* the program is run a second time on the same source with another value of
\* MAX_NUM_REPEATED_ELEMS and of the outermost silent; how the first run
\* ended, what it wrote and what it returned are kept
RunThrottled ==
    /\ pc \in {"returned", "raised"}
    /\ ret = "none"
    /\ arg' = [pc |-> pc, stdout |-> stdout, result |-> result]
    /\ ret' = "again"
    /\ max_repeated' \in 0..MaxRepeated
    /\ top_silent' \in BOOLEAN
    /\ tell' = W(0)
    /\ clusterIdx' = 0
    /\ stdout' = <<>>
    /\ stderr' = <<>>
    /\ stack' = <<>>
    /\ pc' = "init"
    /\ result' = "none"
    /\ UNCHANGED <<forest, input, size, live_mode, clusters_before_padding, refcnt, children>>

NextThrottled ==
    \/ Next
    \/ RunThrottled

\* lines 508-509: Ebml.readInteger(size) over a payload that fills the source
CallReadInteger ==
    /\ pc = "call"
    /\ pc' = "called"
    /\ ret' = readInteger(input, Pos, arg)
    /\ tell' = WAdd(tell, W(ret'.n))
    /\ UNCHANGED <<forest, input, size, live_mode, clusters_before_padding, max_repeated, top_silent, refcnt, children, clusterIdx,
                   stdout, stderr, stack, result, arg>>

\* IntElement.writeData of the element that holds the value read
CallWriteInteger ==
    /\ pc = "called"
    /\ ret.exc = ""
    /\ pc' = "written"
    /\ stdout' = writeInteger(ret.value)
    /\ UNCHANGED <<forest, input, tell, size, live_mode, clusters_before_padding, max_repeated, top_silent, refcnt, children,
                   clusterIdx, stderr, stack, result, arg, ret>>

\* Ebml.readInteger over the payload written
CallReadWritten ==
    /\ pc = "written"
    /\ pc' = "reread"
    /\ result' = readInteger(stdout, 0, W(Len(stdout)))
    /\ UNCHANGED <<forest, input, tell, size, live_mode, clusters_before_padding, max_repeated, top_silent, refcnt, children,
                   clusterIdx, stdout, stderr, stack, arg, ret>>

NextInteger ==
    \/ CallReadInteger
    \/ CallWriteInteger
    \/ CallReadWritten

\* Ebml.readID on the source
CallReadID ==
    /\ pc = "call"
    /\ pc' = "called"
    /\ ret' = readID(input, Pos)
    /\ tell' = WAdd(tell, W(ret'.n))
    /\ UNCHANGED <<forest, input, size, live_mode, clusters_before_padding, max_repeated, top_silent, refcnt, children, clusterIdx,
                   stdout, stderr, stack, result, arg>>

\* BaseElement.writeID of an element made with the ID read
CallWriteIDRead ==
    /\ pc = "called"
    /\ ret.exc = ""
    /\ pc' = "written"
    /\ result' = writeID(ret.id).exc
    /\ stdout' = writeID(ret.id).str
    /\ UNCHANGED <<forest, input, tell, size, live_mode, clusters_before_padding, max_repeated, top_silent, refcnt, children,
                   clusterIdx, stderr, stack, arg, ret>>

\* Ebml.readID on the bytes written
CallReadIDWritten ==
    /\ pc = "written"
    /\ pc' = "reread"
    /\ arg' = readID(stdout, 0)
    /\ UNCHANGED <<forest, input, tell, size, live_mode, clusters_before_padding, max_repeated, top_silent, refcnt, children,
                   clusterIdx, stdout, stderr, stack, result, ret>>

NextReadID ==
    \/ CallReadID
    \/ CallWriteIDRead
    \/ CallReadIDWritten

\* ------------------------------------------------------------------------
\* dlna_fuse.py: the file system that starts and stops the capture
\* ------------------------------------------------------------------------

\* line 115, (flags & accmode) == os.O_RDONLY: accmode is the two lowest bits
\* of flags and O_RDONLY is 0
ReadOnly(flags) == flags % 4 = 0

\* self.process.poll(): None as long as the process last spawned has not
\* exited
poll == IF children[Len(children)] = "exited" THEN "returncode" ELSE "None"

\* the most calls of open
MaxCalls == 4

\* the flags of an open: O_RDONLY, O_WRONLY, O_RDWR, and O_RDONLY with
\* O_LARGEFILE
OpenFlags == {0, 1, 2, 32768}

\* what no handler of DlnaFuse touches
Parked ==
    UNCHANGED <<forest, input, tell, size, live_mode, clusters_before_padding,
                max_repeated, top_silent, clusterIdx, stdout, stderr, stack, result>>

\* DlnaFuse.open(path, flags): EACCES unless the access mode is read-only;
\* the first open spawns the capture process; refcnt is incremented. arg
\* keeps the calls made so far: the last operation and its flags, the opens
\* that succeeded, the releases
open ==
    /\ pc = "call"
    /\ arg.calls < MaxCalls
    /\ \E flags \in OpenFlags :
           IF ~ReadOnly(flags)
           THEN /\ ret' = "EACCES"
                /\ arg' = [arg EXCEPT !.op = "open", !.flags = flags, !.calls = @ + 1]
                /\ UNCHANGED <<refcnt, children>>
           ELSE /\ children' = IF refcnt = 0 THEN Append(children, "running") ELSE children
                /\ refcnt' = refcnt + 1
                /\ ret' = "None"
                /\ arg' = [arg EXCEPT !.op = "open", !.flags = flags, !.calls = @ + 1,
                                      !.opens = @ + 1]
    /\ UNCHANGED pc
    /\ Parked

\* DlnaFuse.release(path, flags), called for a file that an open returned:
\* refcnt is decremented; at 0 the loop of lines 166-169 begins, else the
\* call returns
release ==
    /\ pc = "call"
    /\ arg.releases < arg.opens
    /\ refcnt' = refcnt - 1
    /\ arg' = [arg EXCEPT !.op = "release", !.releases = @ + 1]
    /\ pc' = IF refcnt' = 0 THEN "release" ELSE "call"
    /\ ret' = IF refcnt' = 0 THEN "none" ELSE "None"
    /\ UNCHANGED children
    /\ Parked

\* lines 166-169, one pass of the loop: the process has not exited, SIGTERM
\* goes to the process group, that is to every capture process alive
killpg ==
    /\ pc = "release"
    /\ poll = "None"
    /\ children' = [i \in DOMAIN children |->
                        IF children[i] = "exited" THEN "exited" ELSE "signalled"]
    /\ UNCHANGED <<pc, arg, ret, refcnt>>
    /\ Parked

\* release returning with the process still alive (a faulty variant that
\* C30 must reject)
release_returns_unpolled ==
    /\ pc = "release"
    /\ pc' = "call"
    /\ ret' = "None"
    /\ UNCHANGED <<arg, refcnt, children>>
    /\ Parked

\* line 166: poll() is no longer None, the loop ends and release returns
release_returns ==
    /\ pc = "release"
    /\ poll # "None"
    /\ pc' = "call"
    /\ ret' = "None"
    /\ UNCHANGED <<arg, refcnt, children>>
    /\ Parked

\* a capture process exits, after SIGTERM or by itself
exits ==
    /\ \E i \in DOMAIN children :
           /\ children[i] # "exited"
           /\ children' = [children EXCEPT ![i] = "exited"]
    /\ UNCHANGED <<pc, arg, ret, refcnt>>
    /\ Parked

NextFuse ==
    \/ open
    \/ release
    \/ killpg
    \/ release_returns
    \/ exits
\* ------------------------------------------------------------------------
\* Reading a byte stream back: the elements of a str, as an EBML reader that
\* follows the declared sizes finds them
\* ------------------------------------------------------------------------

\* the elements found in the items i..e of s, in document order, each with
\* its index in the whole list and the index of its parent (0 at the top).
\* An element whose declared range passes the end of the region is open: it
\* extends to the end.  Reading stops at a header that cannot be decoded.
RECURSIVE ScanFrom(_, _, _, _, _)
ScanFrom(s, i, e, parent, base) ==
    IF i > e THEN <<>>
    ELSE LET hid == readID(s, i - 1)
             hsz == readSize(s, i - 1 + hid.n)
             j == i + hid.n + hsz.n
             ends == IF WFits(hsz.size)
                     THEN {k \in (j - 1)..e : Bytes(s, j, k) = WInt(hsz.size)}
                     ELSE {}
             k == IF ends = {} THEN e ELSE CHOOSE x \in ends : TRUE
             known == hid.id \in TagIDs
             master == known /\ MatroskaTags[hid.id][2] = MASTER
             node == [idx |-> base + 1, parent |-> parent, id |-> hid.id,
                      name |-> IF known THEN MatroskaTags[hid.id][1] ELSE "",
                      known |-> known, master |-> master, size |-> hsz.size,
                      sizelen |-> hsz.n, start |-> i, closed |-> ends # {},
                      payload |-> IF master THEN <<>> ELSE SubSeq(s, j, k)]
             kids == IF master THEN ScanFrom(s, j, k, base + 1, base + 1) ELSE <<>>
         IN  IF hid.exc # "" \/ hsz.exc # "" \/ j - 1 > e
             THEN <<>>
             ELSE <<node>> \o kids
                  \o ScanFrom(s, k + 1, e, parent, base + 1 + Len(kids))

Scan(s) == ScanFrom(s, 1, Len(s), 0, 0)

\* the children of node n in a scan
KidsOf(scan, n) == SelectSeq(scan, LAMBDA x : x.parent = n)

\* every element of a tree of objects, the tree's root first
RECURSIVE Flatten(_)
RECURSIVE FlattenAll(_)
FlattenAll(elems) ==
    IF elems = <<>> THEN <<>> ELSE Flatten(Head(elems)) \o FlattenAll(Tail(elems))

Flatten(e) ==
    IF e.cls = "dict" THEN <<>>
    ELSE <<e>> \o (IF IsMaster(e) THEN FlattenAll(e.childElems) ELSE <<>>)

\* every object the parser holds: in the active calls and in the returned tree
Held ==
    FlattenAll([i \in 1..Len(stack) |-> stack[i].parentElem])
    \o (IF pc = "returned" THEN Flatten(result) ELSE <<>>)
\* ------------------------------------------------------------------------
\* The inputs: EBML streams of a few elements
\* ------------------------------------------------------------------------

\* the most elements an input holds
MaxElems == 3

\* the most elements of an input built around an Info
MaxInfoElems == 4

\* the largest padding interval (NUM_CLUSTERS_BEFORE_PADDING) tried
MaxInterval == 2

\* the elements the inputs are built from: [id, master, open, payload].
\* An open Master declares the unknown size (all size bits set) and is
\* followed by its children up to the end of the input, as a live muxer
\* writes its Segment.
Elems ==
    [EBML        |-> [id |-> 440786851, master |-> TRUE,  open |-> FALSE, payload |-> <<>>],
     Segment     |-> [id |-> 408125543, master |-> TRUE,  open |-> FALSE, payload |-> <<>>],
     SegmentOpen |-> [id |-> 408125543, master |-> TRUE,  open |-> TRUE,  payload |-> <<>>],
     SeekHead    |-> [id |-> 290298740, master |-> TRUE,  open |-> FALSE, payload |-> <<>>],
     Info        |-> [id |-> 357149030, master |-> TRUE,  open |-> FALSE, payload |-> <<>>],
     Cluster     |-> [id |-> 524531317, master |-> TRUE,  open |-> FALSE, payload |-> <<>>],
     Cues        |-> [id |-> 475249515, master |-> TRUE,  open |-> FALSE, payload |-> <<>>],
     \* Duration = 5000.0
     Duration    |-> [id |-> 17545, master |-> FALSE, open |-> FALSE,
                      payload |-> <<64, 179, 136, 0, 0, 0, 0, 0>>],
     Timecode    |-> [id |-> 231, master |-> FALSE, open |-> FALSE, payload |-> <<5>>],
     Void        |-> [id |-> 236, master |-> FALSE, open |-> FALSE, payload |-> <<7>>],
     \* an ID outside the registry, whose payload reads as a Void element
     Unknown     |-> [id |-> 129, master |-> FALSE, open |-> FALSE,
                      payload |-> <<236, 129, 9>>],
     \* a Cluster of unknown size, as a live muxer writes it
     ClusterOpen |-> [id |-> 524531317, master |-> TRUE,  open |-> TRUE,  payload |-> <<>>],
     \* id 0 is no element: the payload is put into the input as it is.
     \* A byte without a length bit where an ID is due
     BadID       |-> [id |-> 0, master |-> FALSE, open |-> FALSE, payload |-> <<8>>],
     \* the ID of a Void followed by a zero byte where its size is due
     BadSize     |-> [id |-> 0, master |-> FALSE, open |-> FALSE, payload |-> <<236, 0>>],
     \* a DocType (string) that is not ASCII, a MuxingApp that is not UTF-8
     BadString   |-> [id |-> 17026, master |-> FALSE, open |-> FALSE, payload |-> <<200>>],
     BadUtf8     |-> [id |-> 19840, master |-> FALSE, open |-> FALSE, payload |-> <<255>>],
     \* a Duration (float) of 10 bytes, which read as a Void of 8 bytes
     Float10     |-> [id |-> 17545, master |-> FALSE, open |-> FALSE,
                      payload |-> <<236, 136, 0, 0, 0, 0, 0, 0, 0, 0>>]]

\* a tree of the input: [label, kids]
Tree(label, kids) == [label |-> label, kids |-> kids]

\* the forests of exactly n elements over the labels
RECURSIVE ForestsOf(_, _)
TreesOf(labels, n) ==
    {Tree(l, <<>>) : l \in {x \in labels : n = 1}}
    \cup {Tree(l, f) : l \in {x \in labels : Elems[x].master /\ ~Elems[x].open /\ n > 1},
                       f \in ForestsOf(labels, n - 1)}

ForestsOf(labels, n) ==
    IF n = 0 THEN {<<>>}
    ELSE UNION {{<<t>> \o f : t \in TreesOf(labels, k), f \in ForestsOf(labels, n - k)}
                : k \in 1..n}

ForestsUpTo(labels, n) == UNION {ForestsOf(labels, k) : k \in 0..n}

\* the size field of an input element: the 1-byte form below 127, else the
\* 2-byte form; the 8-byte form with every bit set for an open Master
EncodeSize(n) ==
    IF n < 127 THEN <<128 + n>> ELSE <<64 + (n \div 256), n % 256>>

UnknownSize == <<1, 255, 255, 255, 255, 255, 255, 255>>

RECURSIVE EncodeForest(_)
EncodeTree(t) ==
    LET e == Elems[t.label]
        body == IF e.master THEN EncodeForest(t.kids) ELSE e.payload
    IN  IF e.id = 0 THEN e.payload
        ELSE W(e.id) \o (IF e.open THEN UnknownSize ELSE EncodeSize(Len(body))) \o body

EncodeForest(f) ==
    IF f = <<>> THEN <<>> ELSE EncodeTree(Head(f)) \o EncodeForest(Tail(f))

\* the state after Ebml.__init__, for the encoding of a forest among `forests`: the location
\* "-" gives StdinEbml (size 2**64, live mode), any other GioEbml (the size of
\* the file, no live mode)
InitWith(forests, modes, paddings) ==
    /\ forest \in forests
    /\ input = EncodeForest(forest)
    /\ live_mode \in modes
    /\ size = IF live_mode THEN Pow256(8) ELSE W(Len(input))
    /\ clusters_before_padding \in paddings
    /\ max_repeated = MAX_NUM_REPEATED_ELEMS
    /\ top_silent = FALSE
    /\ refcnt = 0
    /\ children = <<>>
    /\ tell = W(0)
    /\ clusterIdx = 0
    /\ stdout = <<>>
    /\ stderr = <<>>
    /\ stack = <<>>
    /\ pc = "init"
    /\ result = "none"
    /\ arg = "none"
    /\ ret = "none"

\* the forests that lie inside one top-level Segment
InSegment(forests) == {<<Tree("Segment", f)>> : f \in forests}

StreamLabels == {"EBML", "Segment", "SegmentOpen", "Cluster", "Void", "Unknown"}

Init ==
    InitWith(ForestsUpTo(StreamLabels, MaxElems), {TRUE}, {NUM_CLUSTERS_BEFORE_PADDING})

Spec == Init /\ [][Next]_vars


\* live streams around an Info: the real Duration of the input, and Segments
\* that make the buffered elements be written
InfoLabels == {"Info", "Duration", "Segment", "Unknown"}

InitInfo ==
    InitWith(ForestsUpTo(InfoLabels, MaxInfoElems), {TRUE}, {NUM_CLUSTERS_BEFORE_PADDING})

SpecInfo == InitInfo /\ [][Next]_vars

\* live streams whose elements all lie inside the Segment, SeekHeads among them
SeekLabels == {"SeekHead", "Cluster", "Void", "Unknown"}

InitSeek ==
    InitWith(InSegment(ForestsUpTo(SeekLabels, MaxElems - 1)), {TRUE},
             {NUM_CLUSTERS_BEFORE_PADDING})

SpecSeek == InitSeek /\ [][Next]_vars

\* live streams of Clusters, for every padding interval up to MaxInterval
PaddingLabels == {"Segment", "Cluster", "Void", "Unknown"}

InitPadding ==
    InitWith(ForestsUpTo(PaddingLabels, MaxElems), {TRUE}, 1..MaxInterval)

SpecPadding == InitPadding /\ [][Next]_vars

\* files and live streams, to compare the tree parse returns in either mode
DumpLabels == {"EBML", "Segment", "Void", "Unknown"}

InitDump ==
    InitWith(ForestsUpTo(DumpLabels, MaxElems), {TRUE, FALSE},
             {NUM_CLUSTERS_BEFORE_PADDING})

SpecDump == InitDump /\ [][Next]_vars

\* files and live streams that hold malformed headers
MalformedLabels == {"Segment", "Cluster", "Void", "Unknown", "BadID", "BadSize"}

InitMalformed ==
    InitWith(ForestsUpTo(MalformedLabels, MaxElems), {TRUE, FALSE},
             {NUM_CLUSTERS_BEFORE_PADDING})

SpecMalformed == InitMalformed /\ [][NextMalformed]_vars

\* live streams with leaves whose value cannot be decoded
LeafLabels == {"EBML", "Segment", "Void", "Unknown", "BadString", "BadUtf8", "Float10"}

InitLeaf ==
    InitWith(ForestsUpTo(LeafLabels, MaxElems), {TRUE}, {NUM_CLUSTERS_BEFORE_PADDING})

SpecLeaf == InitLeaf /\ [][Next]_vars

\* files and live streams that end inside Masters of unknown size
EofLabels == {"SegmentOpen", "ClusterOpen", "Cluster", "Void", "Unknown"}

InitEof ==
    InitWith(ForestsUpTo(EofLabels, MaxElems), {TRUE, FALSE},
             {NUM_CLUSTERS_BEFORE_PADDING})

SpecEof == InitEof /\ [][Next]_vars

\* how far around each landmark the arguments of a call are taken
MaxOffset == 12

\* the wide numbers within MaxOffset of a landmark, inside lo..hi
Around(marks, lo, hi) ==
    {n \in UNION {{WAdd(b, W(d)) : d \in 0..MaxOffset}
                  \cup {WSub(b, W(d)) : d \in {x \in 0..MaxOffset : WLeq(W(x), b)}}
                  : b \in marks} :
         WLeq(lo, n) /\ WLeq(n, hi)}

\* sizes from 0 to 2^56 - 2: around 0, the end of the 4-byte form at 2^28 - 2,
\* 2^32, 2^40, 2^48 and the largest
SizeArgs ==
    Around({W(0), W(268435454), Pow256(4), Pow256(5), Pow256(6), SEGMENT_SIZE},
           W(0), SEGMENT_SIZE)

InitSize == InitCall(SizeArgs, <<>>, {TRUE})

SpecSize == InitSize /\ [][NextSize]_vars

\* element IDs around the limits of writeID's ranges and of what 1 and 2
\* bytes hold
IDArgs ==
    {WInt(n) : n \in Around({W(128), W(256), W(16384), W(65536), W(2097152), W(268435456),
                             W(2147483647)},
                            W(0), W(2147483647))}

InitID == InitCall(IDArgs, <<>>, {TRUE})

SpecID == InitID /\ [][NextID]_vars

\* the sources of the calls of seek and read: every stream of MaxSource
\* bytes over two values
MaxSource == 6

Sources == [1..MaxSource -> {17, 34}]

\* stdin
InitStdin ==
    /\ input \in Sources
    /\ InitCall({"none"}, input, {TRUE})

SpecStdin == InitStdin /\ [][NextSource]_vars

\* a file
InitGio ==
    /\ input \in Sources
    /\ InitCall({"none"}, input, {FALSE})

SpecGio == InitGio /\ [][NextSource]_vars

\* the same bytes parsed in live mode and then as a file
InitTwice ==
    InitWith(ForestsUpTo(MalformedLabels, MaxElems), {TRUE}, {NUM_CLUSTERS_BEFORE_PADDING})

SpecTwice == InitTwice /\ [][NextTwice]_vars

\* files and live streams with runs of elements of one name, parsed with the
\* program's throttling and then with another
ThrottleLabels == {"Segment", "Cluster", "Void", "Unknown"}

InitThrottled ==
    InitWith(ForestsUpTo(ThrottleLabels, MaxElems), {TRUE, FALSE},
             {NUM_CLUSTERS_BEFORE_PADDING})

SpecThrottled == InitThrottled /\ [][NextThrottled]_vars

\* live streams whose Segment holds the index elements, SeekHead and Cues
CuesLabels == {"SeekHead", "Cues", "Void", "Unknown"}

InitCues ==
    InitWith(InSegment(ForestsUpTo(CuesLabels, MaxElems - 1)), {TRUE},
             {NUM_CLUSTERS_BEFORE_PADDING})

SpecCues == InitCues /\ [][Next]_vars

\* live streams of an EBML header, which holds an element of an unregistered
\* ID, and one Segment that holds Masters
MasterLabels == {"Info", "Cluster", "Duration", "Void"}

InitMasters ==
    InitWith({<<Tree("EBML", <<Tree("Unknown", <<>>)>>), Tree("Segment", f)>> :
                  f \in ForestsUpTo(MasterLabels, MaxElems)},
             {TRUE}, {NUM_CLUSTERS_BEFORE_PADDING})

SpecMasters == InitMasters /\ [][Next]_vars

\* the integer payloads of 1 to MaxIntLen bytes whose first byte is the
\* least or the greatest with its top bit clear or set, each other byte 0 or
\* 255
MaxIntLen == 8

IntPayloads ==
    UNION {{<<b>> \o t : b \in {0, 127, 128, 255}, t \in [1..(k - 1) -> {0, 255}]}
           : k \in 1..MaxIntLen}

\* one call of readInteger for each payload, with the payload's length
InitInteger == \E s \in IntPayloads : InitCall({W(Len(s))}, s, {FALSE})

SpecInteger == InitInteger /\ [][NextInteger]_vars

\* the longest sequence of elements side by side
MaxRun == 6

\* files and live streams that hold, behind at most one element of an
\* unregistered ID, up to MaxRun elements of two names side by side: a leaf
\* and a Master without children
RunLabels == {"Void", "Cluster"}

InitRuns ==
    InitWith({u \o f : u \in {<<>>, <<Tree("Unknown", <<>>)>>},
                       f \in UNION {[1..k -> {Tree(l, <<>>) : l \in RunLabels}]
                                    : k \in 0..MaxRun}},
             {TRUE, FALSE}, {NUM_CLUSTERS_BEFORE_PADDING})

SpecRuns == InitRuns /\ [][Next]_vars

\* the sources readID is called on: a first byte that is the least or the
\* greatest of its length class, or has none of the four marker bits set,
\* followed by the class's further bytes, each 0, 1 or 255
IDFirstBytes == {128, 255, 64, 127, 32, 63, 16, 31, 8}

IDSources ==
    UNION {{<<b>> \o t : t \in [1..(LengthClass(b, 4) - 1) -> {0, 1, 255}]}
           : b \in IDFirstBytes}

InitReadID == \E s \in IDSources : InitCall({"none"}, s, {FALSE})

SpecReadID == InitReadID /\ [][NextReadID]_vars

\* the state after DlnaFuse.__init__: no file open, no process
InitFuse ==
    InitCall({[op |-> "none", flags |-> 0, calls |-> 0, opens |-> 0, releases |-> 0]},
             <<>>, {TRUE})

SpecFuse == InitFuse /\ [][NextFuse]_vars

\* ------------------------------------------------------------------------
\* Vocabulary of the properties
\* ------------------------------------------------------------------------

\* the bytes a step appends to the output
Appended == SubSeq(stdout', Len(stdout) + 1, Len(stdout'))

\* the nodes of a scan that carry the name
NodesNamed(scan, name) == {i \in 1..Len(scan) : scan[i].name = name}

\* the offsets of a str at which the four bytes of the Segment ID stand
SegmentHeaders(s) ==
    {p \in 0..(Len(s) - 4) : SubSeq(s, p + 1, p + 4) = WPad(W(ID_Segment), 4)}

\* node i of a scan lies below a Segment
RECURSIVE UnderSegment(_, _)
UnderSegment(scan, i) ==
    /\ scan[i].parent # 0
    /\ \/ scan[scan[i].parent].name = "Segment"
       \/ UnderSegment(scan, scan[i].parent)

\* the IDs of the known elements a scan finds ahead of its first Segment
IdsAheadOfSegment(scan) ==
    LET segs == NodesNamed(scan, "Segment")
        stop == IF segs = {} THEN Len(scan) + 1
                ELSE CHOOSE i \in segs : \A j \in segs : i <= j
        ahead == SelectSeq(SubSeq(scan, 1, stop - 1), LAMBDA n : n.known)
    IN  [k \in 1..Len(ahead) |-> ahead[k].id]

\* a scanned element is the padding block: a Void of PADDING_SIZE NUL bytes
IsPadding(n) ==
    /\ n.name = "Void"
    /\ n.size = W(PADDING_SIZE)
    /\ StrLen(n.payload) = PADDING_SIZE
    /\ AllZero(n.payload)

\* a Void element as the inputs hold it
IsInputVoid(n) == n.name = "Void" /\ n.payload = Elems.Void.payload

\* the step on which a Cluster that is a direct child of the live Segment
\* completes: its call returns to the call that parses the Segment
ClusterDone ==
    /\ live_mode
    /\ pc = "parse"
    /\ Len(stack) >= 2
    /\ Top.parentElem.elemName = "Cluster"
    /\ stack[Len(stack) - 1].parentElem.elemName = "Segment"
    /\ Len(stack') = Len(stack) - 1

\* the padding block as it is written: the Void ID, the size PADDING_SIZE in
\* the 4-byte form, PADDING_SIZE NUL bytes
PaddingBlock == <<ID_Void>> \o WPad(W(268435456 + PADDING_SIZE), 4) \o Zeros(PADDING_SIZE)

\* the bytes end with the padding block
EndsWithPadding(str) ==
    /\ Len(str) >= Len(PaddingBlock)
    /\ SubSeq(str, Len(str) - Len(PaddingBlock) + 1, Len(str)) = PaddingBlock

\* the step on which a Segment is entered in live mode (lines 482-487)
SegmentEntered ==
    /\ live_mode
    /\ pc = "parse"
    /\ Len(stack') = Len(stack) + 1
    /\ stack'[Len(stack')].parentElem.elemName = "Segment"

\* the elements of a forest as encoded from offset off on, in document
\* order: where each starts, where the element after it starts, and the ID of
\* its following sibling (0 when it is the last of its parent)
RECURSIVE Layout(_, _)
Layout(f, off) ==
    IF f = <<>> THEN <<>>
    ELSE LET t == Head(f)
             e == Elems[t.label]
             len == Len(EncodeTree(t))
             body == IF e.master THEN Len(EncodeForest(t.kids)) ELSE Len(e.payload)
         IN  <<[label |-> t.label, start |-> off, next |-> off + len,
                sib |-> IF Len(f) > 1 THEN Elems[f[2].label].id ELSE 0]>>
             \o Layout(t.kids, off + (len - body))
             \o Layout(Tail(f), off + len)

\* the known elements of a forest, nested as in the input: [id, kids]
RECURSIVE KnownForest(_)
KnownForest(f) ==
    IF f = <<>> THEN <<>>
    ELSE IF Elems[Head(f).label].id \in TagIDs
    THEN <<[id |-> Elems[Head(f).label].id, kids |-> KnownForest(Head(f).kids)]>>
         \o KnownForest(Tail(f))
    ELSE KnownForest(Tail(f))

\* the objects of a tree, nested as they are held: [id, kids]
RECURSIVE ObjForest(_)
ObjForest(elems) ==
    IF elems = <<>> THEN <<>>
    ELSE <<[id |-> Head(elems).elemID,
            kids |-> IF IsMaster(Head(elems)) THEN ObjForest(Head(elems).childElems)
                     ELSE <<>>]>>
         \o ObjForest(Tail(elems))

\* the labels of a forest
RECURSIVE LabelsOf(_)
LabelsOf(f) ==
    IF f = <<>> THEN {}
    ELSE {Head(f).label} \cup LabelsOf(Head(f).kids) \cup LabelsOf(Tail(f))

\* ------------------------------------------------------------------------
\* The properties
\* ------------------------------------------------------------------------

\* C1: in live mode every Segment header in the output - the four bytes of the
\* Segment ID, wherever they were written - is followed by an 8-byte size
\* field that decodes to 2^56 - 2, whatever size the input declared for the
\* Segment and whatever children the Segment object held when it was written.
C1_SegmentSizeIsPlaceholder ==
    live_mode =>
        \A p \in SegmentHeaders(stdout) :
            /\ readSize(stdout, p + 4).exc = ""
            /\ readSize(stdout, p + 4).n = 8
            /\ readSize(stdout, p + 4).size = SEGMENT_SIZE

\* C1 is reached: a parse has returned after writing three Segment headers,
\* one of them for a Segment object that held a child when it was written,
\* and the input declared another size than the placeholder.
C1_Witness ==
    /\ pc = "returned"
    /\ live_mode
    /\ Cardinality(SegmentHeaders(stdout)) >= 3
    /\ \E k \in 1..Len(result.childElems) :
           /\ result.childElems[k].cls = "SegmentElement"
           /\ result.childElems[k].childElems # <<>>
    /\ \E p \in SegmentHeaders(input) : readSize(input, p + 4).size # SEGMENT_SIZE

\* C2: every Info in the output has exactly one child named Duration, with
\* the bytes of the placeholder (360000000.0); an Info object the parser holds
\* has no Duration child read from the input, and writing it a second time
\* gives the bytes of the first time.
C2_InfoHasOneFakeDuration ==
    LET sc == Scan(stdout)
    IN  /\ \A i \in NodesNamed(sc, "Info") :
               LET d == SelectSeq(KidsOf(sc, i), LAMBDA x : x.name = "Duration")
               IN  /\ Len(d) = 1
                   /\ d[1].payload = FAKE_DURATION[2]
        /\ \A k \in 1..Len(Held) :
               Held[k].cls = "InfoElement" =>
                   LET w1 == writeElement(Held[k])
                       w2 == writeElement(w1.self)
                   IN  /\ \A c \in 1..Len(Held[k].childElems) :
                              Held[k].childElems[c].elemName = "Duration"
                                  => Held[k].childElems[c].value = FAKE_DURATION
                       /\ w1.exc = ""
                       /\ w2.exc = ""
                       /\ w2.out = w1.out

\* C2 is reached: the input holds an Info with a Duration of its own, and the
\* parse has returned after writing that Info twice.
C2_Witness ==
    /\ pc = "returned"
    /\ \E i \in NodesNamed(Scan(input), "Info") :
           \E j \in NodesNamed(Scan(input), "Duration") : Scan(input)[j].parent = i
    /\ Cardinality(NodesNamed(Scan(stdout), "Info")) >= 2
    /\ \E k \in 1..Len(result.childElems) :
           /\ result.childElems[k].cls = "InfoElement"
           /\ result.childElems[k].durationAdded

\* C3: in live mode no element named SeekHead is found in the output, for
\* inputs whose elements all lie inside the Segment.
C3_NoSeekHeadInOutput ==
    live_mode => NodesNamed(Scan(stdout), "SeekHead") = {}

\* C4: once the output has begun (the first Segment has been met and the
\* buffered elements written), no later step enters a Segment and writes the
\* buffered elements and a Segment header again.
C4_FlushedOnce ==
    [][stdout # <<>> => ~(SegmentEntered /\ stdout' # stdout)]_vars

\* C5: in live mode the output stays empty while the input holds no Segment;
\* once it is not empty, it holds a Segment header, and ahead of the first
\* one exactly the known elements the input holds ahead of its first Segment,
\* in the order of the input.
C5_BufferedThenSegment ==
    live_mode /\ stdout # <<>> =>
        /\ NodesNamed(Scan(stdout), "Segment") # {}
        /\ IdsAheadOfSegment(Scan(stdout)) = IdsAheadOfSegment(Scan(input))

\* C6: when a live parse has returned, every Void the input holds below a
\* Segment has been written (the output holds at least as many), and no
\* Segment object retains a child.
C6_WrittenAndReleased ==
    pc = "returned" /\ live_mode =>
        /\ Cardinality({i \in 1..Len(Scan(input)) :
                            IsInputVoid(Scan(input)[i]) /\ UnderSegment(Scan(input), i)})
               <= Cardinality({i \in 1..Len(Scan(stdout)) : IsInputVoid(Scan(stdout)[i])})
        /\ \A k \in 1..Len(Held) :
               Held[k].cls = "SegmentElement" => Held[k].childElems = <<>>

\* C7: with NUM_CLUSTERS_BEFORE_PADDING = 1, the step that completes a Cluster
\* directly below the live Segment appends the Cluster's ID, a size field
\* that counts all the bytes after it, the children the Cluster held, in
\* order, and last one Void of PADDING_SIZE NUL bytes; none of the children
\* the Cluster held is such a block.
C7_ClusterPadded ==
    [][ClusterDone /\ clusters_before_padding = 1 =>
          LET own == Top.parentElem.childElems
              data == MasterWriteChildren(own).data
          IN  /\ \A c \in 1..Len(own) : own[c] # voidElem
              /\ readID(Appended, 0).id = Top.parentElem.elemID
              /\ readSize(Appended, 4).n = 4
              /\ readSize(Appended, 4).size = W(StrLen(Appended) - 8)
              /\ SubSeq(Appended, 9, Len(Appended)) = data \o PaddingBlock
              /\ StrLen(Appended) = 8 + StrLen(data) + 5 + PADDING_SIZE]_vars

\* C7 is reached: the output holds a Cluster with a child of its own followed
\* by the padding block.
C7_Witness ==
    /\ pc = "returned"
    /\ clusters_before_padding = 1
    /\ \E i \in NodesNamed(Scan(stdout), "Cluster") :
           LET kids == KidsOf(Scan(stdout), i)
           IN  /\ Len(kids) >= 2
               /\ IsInputVoid(kids[1])
               /\ IsPadding(kids[Len(kids)])

\* C8: for every interval N = NUM_CLUSTERS_BEFORE_PADDING, the step that
\* completes a Cluster directly below the live Segment counts it, and the
\* Cluster is written with the padding block exactly when the count, this
\* Cluster included, is a multiple of N.
C8_PaddedEveryNth ==
    [][ClusterDone =>
          /\ clusterIdx' = clusterIdx + 1
          /\ EndsWithPadding(Appended) <=> (clusterIdx' % clusters_before_padding = 0)]_vars

\* C9: in dump mode, and in live mode for an input without a Segment, the
\* tree parse returns holds every known element of the input, nested as in
\* the input and in its order.
C9_TreeHoldsEveryElement ==
    pc = "returned" /\ (~live_mode \/ LabelsOf(forest) \cap {"Segment", "SegmentOpen"} = {})
        => ObjForest(result.childElems) = KnownForest(forest)

\* C10: a step at an element whose ID the registry does not hold moves the
\* cursor to the end of that element (header plus declared size), leaves the
\* calls with their trees, the output and the log as they are, and the ID
\* decoded next is that of the element's following sibling.
C10_UnknownSkipped ==
    [][pc = "parse" /\ InRange /\ HeaderOk /\ HdrID.id \notin TagIDs =>
          LET lay == Layout(forest, 0)
              here == {k \in 1..Len(lay) : lay[k].start = Pos}
          IN  /\ here # {}
              /\ \A k \in here :
                     /\ lay[k].label = "Unknown"
                     /\ tell' = W(lay[k].next)
                     /\ tell' = WAdd(AfterHeader, W(Len(Elems.Unknown.payload)))
                     /\ lay[k].sib # 0 => readID(input, lay[k].next).id = lay[k].sib
                     /\ lay[k].sib # 0 => readID(input, WInt(tell')).id = lay[k].sib
              /\ stack' = stack
              /\ stdout' = stdout
              /\ stderr' = stderr
              /\ pc' = pc]_vars

\* C10 is reached: the cursor stands right behind an unregistered element,
\* at its following sibling, a Void.
C10_Witness ==
    /\ pc = "parse"
    /\ \E k \in 1..Len(Layout(forest, 0)) :
           /\ Layout(forest, 0)[k].label = "Unknown"
           /\ Layout(forest, 0)[k].sib = ID_Void
           /\ tell = W(Layout(forest, 0)[k].next)
    /\ HdrID.id = ID_Void

\* ------------------------------------------------------------------------
\* Malformed input
\* ------------------------------------------------------------------------

\* the parse has ended, by a return or by an exception no call caught
Ended == pc \in {"returned", "raised"}

\* C11: a byte without a length bit where an ID is due ends only the call that
\* meets it: that call hands the element it was filling to its caller, and the
\* parse as a whole ends without an uncaught error. So the outermost call
\* returns the root it was filling, never the empty dict, and no caller fails
\* on the value it is handed (AttributeError).
C11_BadIDReturnsElement ==
    /\ pc = "returned" => result.cls = "RootElement"
    /\ pc = "raised" => result # "AttributeError"

\* a zero byte stands where the size of the element at the cursor is due
AtBadSize == pc = "parse" /\ InRange /\ HdrID.exc = "" /\ HdrSize.exc = "EbmlException"

\* the Master the innermost call was filling reaches its destination in this
\* step: written to the output under a Segment, attached to the caller's
\* element elsewhere
MasterKept ==
    LET caller == stack[Len(stack) - 1]
    IN  IF caller.parentElem.elemName = "Segment"
        THEN Len(stdout') > Len(stdout)
        ELSE /\ Len(stack') = Len(stack) - 1
             /\ \E i \in DOMAIN stack'[Len(stack')].parentElem.childElems :
                    stack'[Len(stack')].parentElem.childElems[i] = Top.parentElem

\* C12: a zero byte where a size is due ends only the call that meets it, at
\* whatever depth: the exception never leaves the outermost call, the parse
\* goes on in the caller, and in live mode the Master that call was filling is
\* kept, attached or written like a completed one.
C12_BadSizeAbortsOneLevel ==
    [][AtBadSize =>
          /\ pc' # "raised"
          /\ (Len(stack) >= 2 => pc' = "parse" /\ Len(stack') = Len(stack) - 1)
          /\ (Len(stack) >= 2 /\ live_mode => MasterKept)]_vars

\* the element is a leaf whose value was not decoded
Undecoded(e) == e.cls = "FloatElement" /\ e.value = EXTENDED

\* C13: a leaf that cannot be decoded (a string that is not ASCII, a text that
\* is not UTF-8, a float of 10 bytes) is dropped alone: no element without a
\* decoded value is ever held by the parser, and neither the parse nor the
\* writing of the leaf's parent ends in an exception.
C13_BadLeafDropped ==
    /\ pc # "raised"
    /\ \A i \in DOMAIN Held : ~Undecoded(Held[i])

\* ------------------------------------------------------------------------
\* The end of the input
\* ------------------------------------------------------------------------

\* the input ends where the ID of the next element is due
AtEof == pc = "parse" /\ InRange /\ HdrID.exc = "EOFError"

\* the bytes a step appends are the element with the children it held, in
\* order, at the front of its data
WrittenWithChildren(elem) ==
    LET data == writeData(elem).data
        hdr == 4 + readSize(Appended, 4).n
    IN  /\ readID(Appended, 0).id = elem.elemID
        /\ Len(Appended) >= hdr + Len(data)
        /\ SubSeq(Appended, hdr + 1, hdr + Len(data)) = data

\* a pass through the loop of the innermost call is possible: the loop has
\* ended, or the input has, or the header at the cursor is well formed
Steppable == pc = "parse" => ~InRange \/ HdrID.exc = "EOFError" \/ HeaderOk

\* a step brings the parse nearer its end: the parse begins, or the cursor
\* moves forward, or it stays and a call returns
Progress ==
    \/ pc = "init" /\ pc' = "parse"
    \/ WLess(tell, tell')
    \/ tell' = tell /\ Len(stack') < Len(stack)

\* C14: when the input ends where an element would begin, the innermost call
\* returns the element it was filling and nothing is raised: the outermost
\* call returns its root, any other hands its element to its caller, which in
\* live mode writes it when it is a direct child of the Segment and attaches
\* it elsewhere. The parse of these inputs terminates normally: it never
\* raises, it is never without a step to take before its return, and every
\* step moves the cursor, which stays below 2^72, forward or returns from a
\* call.
C14_EofReturnsAtEveryLevel ==
    /\ [](pc # "raised" /\ Steppable /\ WLess(tell, Pow256(9)))
    /\ [][Progress]_vars
    /\ [][AtEof =>
             IF Len(stack) = 1
             THEN pc' = "returned" /\ result' = Top.parentElem
             ELSE /\ pc' = "parse"
                  /\ Len(stack') = Len(stack) - 1
                  /\ live_mode =>
                        IF stack[Len(stack) - 1].parentElem.elemName = "Segment"
                        THEN WrittenWithChildren(Top.parentElem)
                        ELSE MasterKept]_vars

\* C14 is reached: a live stream ended inside a Cluster of unknown size that
\* had received a child, and the output holds that Cluster with the child.
C14_Witness ==
    /\ pc = "returned"
    /\ live_mode
    /\ \E i \in DOMAIN forest : forest[i].label = "ClusterOpen"
    /\ \E i \in NodesNamed(Scan(stdout), "Cluster") :
           \E k \in DOMAIN KidsOf(Scan(stdout), i) : IsInputVoid(KidsOf(Scan(stdout), i)[k])

\* ------------------------------------------------------------------------
\* The order of the output
\* ------------------------------------------------------------------------

\* the IDs of the elements of a scan that satisfy keep, in document order
IdsOf(scan, keep(_)) ==
    LET kept == SelectSeq(scan, keep)
    IN  [k \in 1..Len(kept) |-> kept[k].id]

\* C15: when a live parse of an input that holds a Segment has returned, the
\* elements of the output, the injected padding blocks set aside, are the
\* known elements of the input other than SeekHeads, each once and in the
\* order of the input.
C15_OutputInEncounterOrder ==
    pc = "returned" /\ live_mode /\ NodesNamed(Scan(input), "Segment") # {} =>
        IdsOf(Scan(stdout), LAMBDA n : ~IsPadding(n))
            = IdsOf(Scan(input), LAMBDA n : n.known /\ n.name # "SeekHead")

\* ------------------------------------------------------------------------
\* Sizes and IDs
\* ------------------------------------------------------------------------

\* C16: for every size n from 0 to 2^56 - 2, writeSize(n) is 4 bytes exactly
\* when n <= 2^28 - 2 and 8 bytes otherwise, and readSize on those bytes
\* raises nothing, consumes all of them and returns n.
C16_SizeRoundTrip ==
    /\ pc \in {"written", "called"} =>
           Len(input) = IF WLeq(arg, W(268435454)) THEN 4 ELSE 8
    /\ pc = "called" =>
           /\ ret.exc = ""
           /\ ret.n = Len(input)
           /\ tell = W(Len(input))
           /\ ret.size = arg

\* C16 is reached: the first size past the 4-byte form, 2^28 - 1, has been
\* written in 8 bytes and read back, as have 0, 2^28 - 2 and 2^56 - 2 in
\* other behaviours.
C16_Witness ==
    /\ pc = "called"
    /\ arg = W(268435455)
    /\ input = <<1, 0, 0, 0, 15, 255, 255, 255>>
    /\ {W(0), W(268435454), SEGMENT_SIZE} \subseteq SizeArgs

SeekCalled(modes) == arg'.op = "seek" /\ arg'.mode \in modes

\* the position the call of this step asks for
Target ==
    IF arg'.mode = 0 THEN arg'.offset
    ELSE IF arg'.mode = 1 THEN WInt(tell) + arg'.offset
    ELSE WInt(size) + arg'.offset

\* the bytes left on the source
Left == Len(input) - Pos

\* C18: on stdin, size is 2**64 from the start, before any byte is read. An
\* absolute or relative seek to a position before the current one raises
\* IOError, leaves tell() as it was and takes no byte from stdin; a seek to
\* the current position or beyond raises nothing, takes exactly the bytes up
\* to the target from stdin (all there are left, if fewer), and tell() is the
\* target afterwards.
C18_StdinSeekForwardOnly ==
    /\ [](size = Pow256(8) /\ (pc = "call" => tell = W(0)))
    /\ [][SeekCalled({0, 1}) =>
             IF Target < WInt(tell)
             THEN ret'.exc = "IOError" /\ tell' = tell /\ ret'.taken = 0
             ELSE /\ ret'.exc = ""
                  /\ tell' = W(Target)
                  /\ ret'.taken = (IF Target - WInt(tell) < Left
                                   THEN Target - WInt(tell) ELSE Left)
                  /\ Pos' = Pos + ret'.taken]_vars

\* C18 is reached: with stdin read up to offset 3, an absolute seek to an
\* earlier offset of the stream has failed.
C18_Witness ==
    /\ pc = "called"
    /\ live_mode
    /\ arg.op = "seek"
    /\ arg.mode = 0
    /\ arg.offset \in 0..2
    /\ tell = W(3)
    /\ ret.exc = "IOError"

C20_SameCourseInBothModes ==
    pc \in {"returned", "raised"} /\ ~live_mode =>
        /\ arg.pc = pc
        /\ arg.headers = Headers(stderr)
        /\ arg.tell = tell

\* ------------------------------------------------------------------------
\* The diagnostics
\* ------------------------------------------------------------------------

\* C21: a parse of the same source under any other value of
\* MAX_NUM_REPEATED_ELEMS and of the outermost silent ends the same way,
\* has written the same bytes and returns the same tree.
C21_ThrottleLeavesResult ==
    pc \in {"returned", "raised"} /\ ret = "again" =>
        /\ pc = arg.pc
        /\ stdout = arg.stdout
        /\ result = arg.result

\* C21 is reached: a second run in which the line of an element was
\* suppressed has ended, having written output.
C21_Witness ==
    /\ pc = "returned"
    /\ ret = "again"
    /\ stdout # <<>>
    /\ max_repeated = 0
    /\ \E i \in DOMAIN stderr : stderr[i][1] = "+"

\* ------------------------------------------------------------------------
\* Dump mode
\* ------------------------------------------------------------------------

\* C22: a parse of a location other than "-" writes no byte to the output,
\* whatever the input holds.
C22_DumpWritesNothing ==
    ~live_mode => stdout = <<>>

\* C22 is reached: the dump parse of a file that holds a Segment with a
\* Master below it has returned.
C22_Witness ==
    /\ ~live_mode
    /\ pc = "returned"
    /\ \E i \in NodesNamed(Scan(input), "Segment") :
           \E k \in DOMAIN KidsOf(Scan(input), i) : KidsOf(Scan(input), i)[k].master
    /\ stdout = <<>>

\* ------------------------------------------------------------------------
\* The output of live mode
\* ------------------------------------------------------------------------

\* C23: in live mode the output holds no Cues element.
C23_NoCuesInOutput ==
    live_mode => NodesNamed(Scan(stdout), "Cues") = {}

\* the bytes an element of a scan of s takes: its ID, its size field and the
\* size it declares
FullLen(s, n) == readID(s, n.start - 1).n + n.sizelen + WInt(n.size)

\* the bytes the elements of a list take together
RECURSIVE SumLen(_, _)
SumLen(s, nodes) ==
    IF nodes = <<>> THEN 0 ELSE FullLen(s, Head(nodes)) + SumLen(s, Tail(nodes))

\* the step on which a call in live mode returns a Master other than a
\* Segment to the call that parses the Segment, and the Master is written
MasterWritten ==
    /\ live_mode
    /\ pc = "parse"
    /\ Len(stack) >= 2
    /\ Len(stack') = Len(stack) - 1
    /\ stack[Len(stack) - 1].parentElem.elemName = "Segment"
    /\ Top.parentElem.elemName # "Segment"
    /\ stdout' # stdout

\* the children a Master has when written: those it holds, the Duration an
\* Info receives at its first writing, the padding of a Cluster
ChildrenWritten(elem) ==
    Len(elem.childElems)
    + (IF elem.cls = "InfoElement" /\ ~elem.durationAdded THEN 1 ELSE 0)
    + (IF elem.elemName = "Cluster" /\ clusterIdx % clusters_before_padding = 0
       THEN 1 ELSE 0)

\* C24: every Master in the output other than a Segment declares a size that
\* ends inside the output, and the elements found one after the other from
\* the start of its payload, its children, take exactly that many bytes. The
\* step that writes a Master below the Segment appends that one element: its
\* ID, a size that counts every byte after the size field, and as many
\* children as the Master has, padding and Duration included.
C24_MasterSizeIsPayload ==
    /\ [](\A i \in DOMAIN Scan(stdout) :
             LET n == Scan(stdout)[i]
             IN  n.master /\ n.name # "Segment" =>
                     /\ n.closed
                     /\ WFits(n.size)
                     /\ SumLen(stdout, KidsOf(Scan(stdout), i)) = WInt(n.size))
    /\ [][MasterWritten =>
             LET hdr == readID(Appended, 0).n + readSize(Appended, readID(Appended, 0).n).n
             IN  /\ readID(Appended, 0).id = Top.parentElem.elemID
                 /\ readSize(Appended, readID(Appended, 0).n).size
                        = W(StrLen(Appended) - hdr)
                 /\ Len(KidsOf(Scan(Appended), 1)) = ChildrenWritten(Top.parentElem)]_vars

\* C24 is reached: the output holds an Info with a child of its own and the
\* synthesized Duration, and a Cluster with the padding block.
C24_Witness ==
    /\ pc = "returned"
    /\ \E i \in NodesNamed(Scan(stdout), "Info") :
           LET kids == KidsOf(Scan(stdout), i)
           IN  /\ Len(kids) = 2
               /\ IsInputVoid(kids[1])
               /\ kids[2].name = "Duration"
    /\ \E i \in NodesNamed(Scan(stdout), "Cluster") :
           LET kids == KidsOf(Scan(stdout), i)
           IN  /\ Len(kids) = 1
               /\ IsPadding(kids[1])

\* ------------------------------------------------------------------------
\* Signed integers
\* ------------------------------------------------------------------------

\* the integer a big-endian two's-complement payload stands for, as sign and
\* magnitude
Signed(s) ==
    IF s[1] >= 128
    THEN [neg |-> TRUE, mag |-> WSub(Pow256(Len(s)), WNorm(s))]
    ELSE [neg |-> FALSE, mag |-> WNorm(s)]

\* a value readInteger returns, as sign and magnitude: unpack of the
\* unsigned formats B, H and L gives no negative number
Unsigned(value) == [neg |-> FALSE, mag |-> value]

\* C25: a signed-integer payload of 1 to 8 bytes with its top bit set is
\* decoded to the negative number it stands for, and the payload written for
\* the element stands for the same number.
C25_SignedIntDecoded ==
    /\ pc \in {"called", "written", "reread"} /\ input[1] >= 128 =>
           /\ ret.exc = ""
           /\ Unsigned(ret.value) = Signed(input)
    /\ pc \in {"written", "reread"} /\ input[1] >= 128 =>
           Signed(stdout) = Signed(input)

\* ------------------------------------------------------------------------
\* The throttled log
\* ------------------------------------------------------------------------

\* the offset of the i-th top-level element of the input
OffsetOf(i) == Len(EncodeForest(SubSeq(forest, 1, i - 1)))

\* the place in the log of the line that announces the element at an offset
LineOf(ofs) ==
    CHOOSE j \in DOMAIN stderr : stderr[j][1] = "elem" /\ stderr[j][5] = W(ofs)

\* the top-level elements a to b are a run: one registered name, and no
\* element of that name before or behind
IsRun(a, b) ==
    /\ a <= b
    /\ forest[a].label \in RunLabels
    /\ \A i \in a..b : forest[i].label = forest[a].label
    /\ a > 1 => forest[a - 1].label # forest[a].label
    /\ b < Len(forest) => forest[b + 1].label # forest[a].label

\* the log from the line of the run's first element up to the line of the
\* next run's first element, or to the end of the log
LogOfRun(a, b) ==
    SubSeq(stderr, LineOf(OffsetOf(a)),
           IF b < Len(forest) THEN LineOf(OffsetOf(b + 1)) - 1 ELSE Len(stderr))

\* C26: in the log of a finished parse, every run of n elements of one name
\* at a level that is not silent has the lines of at most
\* MAX_NUM_REPEATED_ELEMS of its elements; when the lines of some were
\* suppressed, the run's log ends in its only summary line, whose count is
\* the number of elements suppressed; when none was, it has no summary line.
C26_RunsSummedUp ==
    pc = "returned" =>
        \A a, b \in DOMAIN forest :
            IsRun(a, b) =>
                LET log == LogOfRun(a, b)
                    printed == Len(SelectSeq(log, LAMBDA l : l[1] = "elem"))
                    sums == SelectSeq(log, LAMBDA l : l[1] = "+")
                    n == b - a + 1
                IN  /\ printed <= max_repeated
                    /\ IF printed < n
                       THEN /\ Len(sums) = 1
                            /\ log[Len(log)] = <<"+", 0, n - printed, forest[a].label>>
                       ELSE sums = <<>>

\* ------------------------------------------------------------------------
\* The direction of the parser's seeks
\* ------------------------------------------------------------------------

\* C27: a parse begun at offset 0 asks its source for no move backward: the
\* seek that begins each call of parse and the seek that skips an element of
\* an unregistered ID are refused by neither source, and no step of the
\* parse leaves the position before where it was.
C27_SeeksGoForward ==
    /\ [](pc = "raised" => result \notin {"IOError", "gio.Error"})
    /\ [][(pc \in {"init", "parse"}) => WLeq(tell, (tell'))]_vars

\* C27 is reached: a live parse has returned after the seeks of a call two
\* levels down, which began behind other elements, and of a skipped element.
C27_Witness ==
    /\ pc = "returned"
    /\ live_mode
    /\ forest = <<Tree("EBML", <<>>), Tree("Segment", <<Tree("Unknown", <<>>)>>)>>
    /\ tell = W(Len(input))

\* ------------------------------------------------------------------------
\* The payload of a leaf
\* ------------------------------------------------------------------------

\* the element at the cursor has a sound header, a registered ID and a type
\* other than MASTER
AtLeaf ==
    /\ pc = "parse"
    /\ InRange
    /\ HeaderOk
    /\ HdrID.id \in TagIDs
    /\ MatroskaTags[HdrID.id][2] # MASTER

\* C28: the step that reads a leaf of a registered ID with declared size s
\* leaves the cursor s bytes behind the start of the payload, whether or not
\* the payload could be decoded, so that the next ID is read from there.
C28_LeafConsumesDeclaredSize ==
    [][AtLeaf => tell' = WAdd(AfterHeader, HdrSize.size)]_vars

\* ------------------------------------------------------------------------
\* IDs read and written back
\* ------------------------------------------------------------------------

\* C29: every ID that readID returns is accepted by writeID, which writes as
\* many bytes as readID consumed: the bytes read; and readID on the bytes
\* written returns the same ID.
C29_IDRoundTrip ==
    /\ pc \in {"written", "reread"} =>
           /\ result = ""
           /\ Len(stdout) = ret.n
           /\ stdout = input
    /\ pc = "reread" =>
           /\ arg.exc = ""
           /\ arg.id = ret.id
           /\ arg.n = ret.n

\* C29 is reached: the largest 3-byte ID, 0x3FFFFF, has been read, written
\* in 3 bytes and read back, and the sources hold IDs of 1, 2 and 4 bytes
\* too.
C29_Witness ==
    /\ pc = "reread"
    /\ input = <<63, 255, 255>>
    /\ ret.id = 4194303
    /\ arg.id = 4194303
    /\ {<<128>>, <<127, 255>>, <<16, 0, 0, 0>>, <<31, 255, 255, 255>>} \subseteq IDSources

\* ------------------------------------------------------------------------
\* The capture process
\* ------------------------------------------------------------------------

\* the capture processes that have not exited
Alive == {i \in DOMAIN children : children[i] # "exited"}

\* C30: refcnt is the number of opens that succeeded less the number of
\* releases, never negative; a capture process is spawned only by a
\* read-only open that finds refcnt at 0; an open with another access mode
\* returns EACCES and leaves refcnt and the processes as they were; a release
\* that brings refcnt to 0 returns only when the process has exited; and no
\* two capture processes are alive at once.
C30_OneCaptureProcess ==
    /\ [](/\ refcnt = arg.opens - arg.releases
          /\ refcnt >= 0
          /\ Cardinality(Alive) <= 1)
    /\ [][Len(children') > Len(children) =>
              /\ arg'.op = "open"
              /\ arg'.calls = arg.calls + 1
              /\ ReadOnly(arg'.flags)
              /\ refcnt = 0]_vars
    /\ [][arg'.calls = arg.calls + 1 /\ ~ReadOnly(arg'.flags) =>
              /\ ret' = "EACCES"
              /\ UNCHANGED <<refcnt, children>>]_vars
    /\ [][arg'.op = "release" /\ ret' = "None" /\ ret # "None" /\ refcnt' = 0 =>
              poll # "None"]_vars

\* C30 is reached: after two opens and two releases, the second of which
\* waited for the process to exit, a third open has spawned the second
\* capture process.
C30_Witness ==
    /\ pc = "call"
    /\ arg.opens = 3
    /\ arg.releases = 2
    /\ refcnt = 1
    /\ children = <<"exited", "running">>
====
